---- MODULE Spec2Model ----
(***************************************************************************)
(* Verification model of the trading bot's risk-gated execution core.      *)
(*                                                                         *)
(* Numbers.  The program computes in binary floating point; the model      *)
(* computes in fixed point on integers:                                    *)
(*   - a price is a whole number of quote units (USD);                     *)
(*   - a quantity is a whole number of lots, Unit lots to the coin;        *)
(*   - money is counted in 1/Unit USD, so that price * quantity is money   *)
(*     with no rounding at all;                                            *)
(*   - a fraction (fee, slippage, risk, thresholds) is a whole number of   *)
(*     1/BP, e.g. 0.0005 is 5 and 0.10 is 1000.                            *)
(* The only roundings are the floors of x * fraction and of the two        *)
(* quantity divisions; threshold comparisons a / b >= f are evaluated      *)
(* exactly, as a * BP >= f * b.                                            *)
(***************************************************************************)
EXTENDS Integers, Sequences, FiniteSets, TLC

\* ------------------------------------------------------------------------
\* Bounds of the model
\* ------------------------------------------------------------------------
\* Longest candle sequence (len(df)) a simulation run is given.
MaxCandles == 4
\* Events a live program handles once it trades (after the warm-up of the
\* stream-driven engine).
MaxEvents == 3
\* Calendar dates the candles of a run, or the events of a live program,
\* spread over.
MaxDays == 2

\* ------------------------------------------------------------------------
\* Fixed point arithmetic
\* ------------------------------------------------------------------------
Unit == 10^4
BP == 10^4

Max(a, b) == IF a >= b THEN a ELSE b
Min(a, b) == IF a <= b THEN a ELSE b
Abs(a) == IF a >= 0 THEN a ELSE -a

\* floor(a * n / d) for a >= 0, computed without leaving 32 bits.
MulDiv(a, n, d) == (a \div d) * n + ((a % d) * n) \div d
\* ceil(a * n / d)
MulDivUp(a, n, d) == MulDiv(a, n, d) + (IF ((a % d) * n) % d = 0 THEN 0 ELSE 1)
\* a / b >= f / BP, for b > 0: a * BP >= f * b
RatioAtLeast(a, b, f) == a >= MulDivUp(b, f, BP)

\* ------------------------------------------------------------------------
\* config.py
\* ------------------------------------------------------------------------
TRADING_FEE == 10
SLIPPAGE == 5
RISK_PER_TRADE == 100
MAX_DAILY_LOSS == 300
MAX_OPEN_TRADES == 3
CIRCUIT_BREAKER_DD == 1000
TP_PCT == 30
SL_PCT == 30
INITIAL_CAPITAL == 10000 * Unit

\* main.py: closed candles the stream-driven engine collects before it
\* evaluates signals
MIN_CANDLES == 60

\* ------------------------------------------------------------------------
\* Configuration (BacktestParams)
\* ------------------------------------------------------------------------
\* BacktestParams(): the defaults of the dataclass, equal to config.py
DefaultParams ==
    [ initial_capital    |-> INITIAL_CAPITAL,
      trading_fee        |-> TRADING_FEE,
      slippage           |-> SLIPPAGE,
      risk_per_trade     |-> RISK_PER_TRADE,
      max_daily_loss     |-> MAX_DAILY_LOSS,
      max_open_trades    |-> MAX_OPEN_TRADES,
      circuit_breaker_dd |-> CIRCUIT_BREAKER_DD,
      tp_pct             |-> TP_PCT,
      sl_pct             |-> SL_PCT ]

\* The defaults of BacktestParams (equal to config.py) with a drawdown
\* threshold of 0.1% in place of 10%.  With a stop of 0.3% and a risk of 1% the
\* sized cost is 3.3 times the equity, so every open is clamped to the whole
\* cash; its fee and slippage alone are a drawdown of 0.15%.
TightParams ==
    [ initial_capital    |-> 10000 * Unit,
      trading_fee        |-> 10,
      slippage           |-> 5,
      risk_per_trade     |-> 100,
      max_daily_loss     |-> 300,
      max_open_trades    |-> 3,
      circuit_breaker_dd |-> 10,
      tp_pct             |-> 30,
      sl_pct             |-> 30 ]

\* A configuration with a wide stop: a position costs a fifth of the equity,
\* two may be open at once, one stopped position reaches the daily loss cap
\* and two reach the drawdown threshold.
WideParams ==
    [ initial_capital    |-> 10000 * Unit,
      trading_fee        |-> 10,
      slippage           |-> 5,
      risk_per_trade     |-> 100,
      max_daily_loss     |-> 100,
      max_open_trades    |-> 2,
      circuit_breaker_dd |-> 200,
      tp_pct             |-> 400,
      sl_pct             |-> 500 ]

ParamSets == {TightParams, WideParams}

\* BacktestParams(risk_per_trade=0): the defaults with nothing put at risk
ZeroRiskParams ==
    [ initial_capital    |-> 10000 * Unit,
      trading_fee        |-> 10,
      slippage           |-> 5,
      risk_per_trade     |-> 0,
      max_daily_loss     |-> 300,
      max_open_trades    |-> 3,
      circuit_breaker_dd |-> 1000,
      tp_pct             |-> 30,
      sl_pct             |-> 30 ]

\* BacktestParams(initial_capital=0): the defaults with no capital, so that
\* equity is 0 throughout
ZeroCapitalParams ==
    [ initial_capital    |-> 0,
      trading_fee        |-> 10,
      slippage           |-> 5,
      risk_per_trade     |-> 100,
      max_daily_loss     |-> 300,
      max_open_trades    |-> 3,
      circuit_breaker_dd |-> 1000,
      tp_pct             |-> 30,
      sl_pct             |-> 30 ]

EdgeParamSets == {ZeroRiskParams, ZeroCapitalParams}

\* ------------------------------------------------------------------------
\* Inputs: the candles of the DataFrame
\* ------------------------------------------------------------------------
PriceLevels == {9400, 9750, 10000, 10500}

\* The columns of a row that Backtester reads.  date is the calendar day of
\* timestamp; signal is 1 for a buy signal.
CandleShapes ==
    { [low |-> l, high |-> h, close |-> c, signal |-> s] :
        l \in PriceLevels, h \in PriceLevels, c \in PriceLevels, s \in {0, 1} }

Candles == { k \in CandleShapes : k.low <= k.close /\ k.close <= k.high }

NoRow == [timestamp |-> 0, date |-> 0, low |-> 0, high |-> 0, close |-> 0, signal |-> 0]

\* ------------------------------------------------------------------------
\* State
\* ------------------------------------------------------------------------
VARIABLES
    params,                  \* Backtester.params
    cash,                    \* Backtester.cash
    equity,                  \* Backtester.equity
    peak_equity,             \* Backtester.peak_equity
    positions,               \* Backtester.positions
    trades,                  \* Backtester.trades
    equity_curve,            \* Backtester.equity_curve
    circuit_breaker_active,  \* Backtester.circuit_breaker_active
    current_date,            \* Backtester._current_date (0 is None)
    daily_pnl,               \* Backtester._daily_pnl
    pc,                      \* where run() stands
    i,                       \* rows of df processed so far
    row,                     \* the row being processed (the loop variable); a
                             \* column is cleared once run() reads it no more
    last,                    \* df.iloc[-1] of the rows seen so far
    can_open,                \* what the last call of _can_open_trade returned
    cap_hit,                 \* history: the daily loss cap was reached at some
                             \* point of current_date
    cap_hit_prev,            \* history: cap_hit of the date before current_date
    reset_of                 \* history: what the _reset() that started the
                             \* current run found (trades, breaker flag),
                             \* kept until the run reads its first row

btvars == << params, cash, equity, peak_equity, positions, trades, equity_curve,
             circuit_breaker_active, current_date, daily_pnl, pc, i, row, last,
             can_open, cap_hit, cap_hit_prev, reset_of >>

\* The live programs: the polling trader (LiveTrader, driven by the
\* dashboard) and the stream-driven engine (LiveTradingEngine with its
\* RiskManager and OrderManager), the venue and the wall clock.
VARIABLES
    engine,         \* which live program runs: "polling", "stream" or "none"
    today,          \* datetime.now(timezone.utc).date(), as a day number
    usdt,           \* the venue account's free USDT
    events,         \* events handled so far (ticks, klines, button presses)
    trader,         \* the LiveTrader object
    state_file,     \* output/live_state.json: << >> or << the saved dict >>
    risk_manager,   \* the RiskManager object
    order_manager,  \* the OrderManager object
    live_engine,    \* the LiveTradingEngine object
    seen_today,     \* history: an event was handled since the last midnight
    closed_today,   \* history: net P&L of the positions closed since the
                    \* last midnight, as the program computed it
    orders,         \* history: the orders the last handled event sent to
                    \* the venue, with the attempts each took
    last_event      \* history: the last event handled

livevars == << engine, today, usdt, events, trader, state_file, risk_manager,
               order_manager, live_engine, seen_today, closed_today, orders,
               last_event >>

\* The comparison of the three admission and sizing rules on one risk state.
VARIABLES
    risk_state,     \* the risk state and prices handed to the three programs
    decisions,      \* what each of them decided
    size_args,      \* the equity and the (entry_price, sl_price) handed to the
                    \* position sizing of Backtester and of RiskManager
    sizes           \* what each of them returned

riskvars == << risk_state, decisions, size_args, sizes >>

\* The parameter sweep of run_grid_search.
VARIABLES
    sweep           \* base_df, the combinations not yet handed out, the
                    \* workers with the Backtester each one constructed, and
                    \* the results returned so far

sweepvars == << sweep >>

\* One order quantity on its way to the venue.
VARIABLES
    lot_order       \* the LOT_SIZE step the venue reported, the quantity
                    \* asked for, the quantities sent and the position made
                    \* or closed

lotvars == << lot_order >>

\* The candle a tick of LiveTrader read its signal from.
VARIABLES
    tick_candle     \* history: the number of the last candle get_klines
                    \* returned to _check_signal, and the positions opened
                    \* on ticks that read it as the last candle

candlevars == << tick_candle >>

vars == << btvars, livevars, riskvars, sweepvars, lotvars, candlevars >>

\* ------------------------------------------------------------------------
\* Backtester: the methods as operators
\* ------------------------------------------------------------------------
\* (mutant) the breaker flag is left as the run before set it
Reset_KeepsBreaker(p) ==
    [ cash                   |-> p.initial_capital,
      equity                 |-> p.initial_capital,
      peak_equity            |-> p.initial_capital,
      positions              |-> << >>,
      trades                 |-> << >>,
      equity_curve           |-> << >>,
      circuit_breaker_active |-> circuit_breaker_active,
      current_date           |-> 0,
      daily_pnl              |-> 0 ]

\* _reset: the attributes it assigns
Reset(p) ==
    [ cash                   |-> p.initial_capital,
      equity                 |-> p.initial_capital,
      peak_equity            |-> p.initial_capital,
      positions              |-> << >>,
      trades                 |-> << >>,
      equity_curve           |-> << >>,
      circuit_breaker_active |-> FALSE,
      current_date           |-> 0,
      daily_pnl              |-> 0 ]

\* nothing was reset yet, or the run has read its first row
NoReset == [trades |-> 0, breaker |-> FALSE]

\* (mutant) the date is stored but the day's P&L is carried over
UpdateDailyTracking_NoReset(cur, dpnl, date) ==
    [current_date |-> date, daily_pnl |-> dpnl]

\* _update_daily_tracking: the new (_current_date, _daily_pnl)
UpdateDailyTracking(cur, dpnl, date) ==
    IF cur = 0 \/ date # cur
    THEN [current_date |-> date, daily_pnl |-> 0]
    ELSE [current_date |-> cur, daily_pnl |-> dpnl]

\* (mutant) take-profit tested before stop-loss
ExitSide_TpFirst(pos, r) ==
    IF r.high >= pos.tp_price THEN "TP"
    ELSE IF r.low <= pos.sl_price THEN "SL"
    ELSE "NONE"

\* _check_exits, lines 150-156: which exit a position takes on a row
ExitSide(pos, r) ==
    IF r.low <= pos.sl_price THEN "SL"
    ELSE IF r.high >= pos.tp_price THEN "TP"
    ELSE "NONE"

\* _check_exits, lines 152-163: the exit price after slippage
ExitPrice(pos, side, p) ==
    LET trigger == IF side = "SL" THEN pos.sl_price ELSE pos.tp_price
    IN MulDiv(trigger, BP - p.slippage, BP)

\* lines 165-179 and 273-287: the Trade of a position closed at exit_price
MakeTrade(pos, exit_price, side, time, p) ==
    LET exit_fee == MulDiv(exit_price * pos.quantity, p.trading_fee, BP)
        gross_pnl == (exit_price - pos.entry_price) * pos.quantity
    IN [ entry_time  |-> pos.entry_time,
         exit_time   |-> time,
         entry_price |-> pos.entry_price,
         exit_price  |-> exit_price,
         quantity    |-> pos.quantity,
         side        |-> side,
         pnl         |-> gross_pnl - pos.entry_fee - exit_fee,
         total_fee   |-> pos.entry_fee + exit_fee ]

\* _check_exits, the loop of lines 146-183 from index idx on; st carries
\* trades, cash, daily_pnl and closed_indices.
RECURSIVE CheckExitsLoop(_, _, _, _, _)
CheckExitsLoop(idx, ps, st, r, p) ==
    IF idx > Len(ps) THEN st
    ELSE
      LET pos == ps[idx]
          side == ExitSide(pos, r)
      IN IF side = "NONE" THEN CheckExitsLoop(idx + 1, ps, st, r, p)
         ELSE
           LET t == MakeTrade(pos, ExitPrice(pos, side, p), side, r.timestamp, p)
               exit_fee == t.total_fee - pos.entry_fee
           IN CheckExitsLoop(idx + 1, ps,
                [ trades    |-> Append(st.trades, t),
                  cash      |-> st.cash + t.exit_price * pos.quantity - exit_fee,
                  daily_pnl |-> st.daily_pnl + t.pnl,
                  closed    |-> st.closed \cup {idx} ], r, p)

\* (mutant) the closed indices are popped in ascending order, so that each
\* pop shifts the positions behind it
RECURSIVE Remaining_PopsForward(_, _, _)
Remaining_PopsForward(idx, ps, closed) ==
    IF closed = {} THEN ps
    ELSE LET c == CHOOSE x \in closed : \A y \in closed : x <= y
             popped == IF c > Len(ps) THEN ps
                       ELSE SubSeq(ps, 1, c - 1) \o SubSeq(ps, c + 1, Len(ps))
         IN Remaining_PopsForward(idx, popped, closed \ {c})

\* the positions left once the closed indices are popped (lines 186-187)
RECURSIVE Remaining(_, _, _)
Remaining(idx, ps, closed) ==
    IF idx > Len(ps) THEN << >>
    ELSE IF idx \in closed THEN Remaining(idx + 1, ps, closed)
    ELSE << ps[idx] >> \o Remaining(idx + 1, ps, closed)

\* (mutant) the flag follows the current drawdown instead of latching
CheckCircuitBreaker_NoLatch(active, peak, eq, p) ==
    peak > 0 /\ RatioAtLeast(peak - eq, peak, p.circuit_breaker_dd)

\* _check_circuit_breaker: the new value of circuit_breaker_active
CheckCircuitBreaker(active, peak, eq, p) ==
    IF peak > 0 /\ RatioAtLeast(peak - eq, peak, p.circuit_breaker_dd)
    THEN TRUE
    ELSE active

\* _can_open_trade, lines 206-209: the daily loss cap is reached
DailyLossReached(dpnl, eq, p) ==
    eq > 0 /\ RatioAtLeast(Abs(Min(0, dpnl)), eq, p.max_daily_loss)

\* (mutant) the slot limit tested with > instead of >=
CanOpenTrade_SlotOffByOne(active, npos, eq, dpnl, p) ==
    IF active THEN FALSE
    ELSE IF npos > p.max_open_trades THEN FALSE
    ELSE IF DailyLossReached(dpnl, eq, p) THEN FALSE
    ELSE TRUE

\* (mutant) the daily loss not tested
CanOpenTrade_NoDailyCap(active, npos, eq, dpnl, p) ==
    IF active THEN FALSE
    ELSE IF npos >= p.max_open_trades THEN FALSE
    ELSE TRUE

\* (mutant) the breaker flag not consulted
CanOpenTrade_IgnoreBreaker(active, npos, eq, dpnl, p) ==
    IF npos >= p.max_open_trades THEN FALSE
    ELSE IF DailyLossReached(dpnl, eq, p) THEN FALSE
    ELSE TRUE

\* (mutant) a slot is held back: the limit is reached one position early
CanOpenTrade_SlotHeldBack(active, npos, eq, dpnl, p) ==
    IF active THEN FALSE
    ELSE IF npos + 1 >= p.max_open_trades THEN FALSE
    ELSE IF DailyLossReached(dpnl, eq, p) THEN FALSE
    ELSE TRUE

\* _can_open_trade
CanOpenTrade(active, npos, eq, dpnl, p) ==
    IF active THEN FALSE
    ELSE IF npos >= p.max_open_trades THEN FALSE
    ELSE IF DailyLossReached(dpnl, eq, p) THEN FALSE
    ELSE TRUE

\* (mutant) the take-profit is put at the entry price
TpPrice_AtEntry(entry_price, p) == entry_price

\* _try_open_position, lines 218-223
EntryPrice(close, p) == MulDiv(close, BP + p.slippage, BP)
TpPrice(entry_price, p) == MulDiv(entry_price, BP + p.tp_pct, BP)
SlPrice(entry_price, p) == MulDiv(entry_price, BP - p.sl_pct, BP)

\* _try_open_position, lines 227-233: the quantity the risk allows, 0 when
\* the method returns at line 231
SizeByRisk(eq, entry_price, sl_price, p) ==
    LET risk_amount == MulDiv(eq, p.risk_per_trade, BP)
        sl_distance == entry_price - sl_price
    IN IF sl_distance <= 0 THEN 0 ELSE risk_amount \div sl_distance

\* (mutant) the entry fee is not taken from the cash
TotalCost_WithoutFee(entry_price, quantity, p) == entry_price * quantity

\* cost + entry_fee of a quantity (lines 236-238 and 245-247)
EntryFee(entry_price, quantity, p) == MulDiv(entry_price * quantity, p.trading_fee, BP)
TotalCost(entry_price, quantity, p) ==
    entry_price * quantity + EntryFee(entry_price, quantity, p)

\* a / b rounded to the nearest integer (halves upwards), b > 0
RoundDiv(a, b) == (2 * a + b) \div (2 * b)

\* line 242: cash / (entry_price * (1 + trading_fee)).  A float division
\* rounds its quotient to the nearest representable number, upwards as
\* often as downwards, and so does the model on its grid of lots; the
\* rounding step is a lot here and an ulp of the quantity in the program.
ClampToCash(c, entry_price, p) ==
    RoundDiv(MulDiv(c, BP, BP + p.trading_fee), entry_price)

\* line 240: the sized quantity costs more than the cash
CostExceedsCash(c, eq, entry_price, sl_price, p) ==
    TotalCost(entry_price, SizeByRisk(eq, entry_price, sl_price, p), p) > c

\* _try_open_position after the admission check, lines 218-247: the method
\* goes on to open a position.  It returns without opening at line 231
\* (sl_distance <= 0) and at line 244 (the clamped quantity is <= 0); a
\* sized quantity that the cash covers is not tested.
Opens(c, eq, r, p) ==
    LET entry_price == EntryPrice(r.close, p)
        sl_price == SlPrice(entry_price, p)
    IN /\ entry_price - sl_price > 0
       /\ CostExceedsCash(c, eq, entry_price, sl_price, p)
             => ClampToCash(c, entry_price, p) > 0

\* _try_open_position after the admission check (lines 218-259): the
\* position it appends, with quantity 0 when it returns without opening.
SizedPosition(c, eq, r, p) ==
    LET entry_price == EntryPrice(r.close, p)
        tp_price == TpPrice(entry_price, p)
        sl_price == SlPrice(entry_price, p)
        quantity == IF ~Opens(c, eq, r, p) THEN 0
                    ELSE IF CostExceedsCash(c, eq, entry_price, sl_price, p)
                         THEN ClampToCash(c, entry_price, p)
                         ELSE SizeByRisk(eq, entry_price, sl_price, p)
    IN [ entry_time  |-> r.timestamp,
         entry_price |-> entry_price,
         quantity    |-> quantity,
         tp_price    |-> tp_price,
         sl_price    |-> sl_price,
         entry_fee   |-> EntryFee(entry_price, quantity, p) ]

\* (mutant) positions valued at their entry price
RECURSIVE PositionValue_AtEntry(_, _)
PositionValue_AtEntry(ps, close) ==
    IF ps = << >> THEN 0
    ELSE Head(ps).quantity * Head(ps).entry_price
         + PositionValue_AtEntry(Tail(ps), close)

\* _update_equity, lines 263-266: cash + sum of quantity * close
RECURSIVE PositionValue(_, _)
PositionValue(ps, close) ==
    IF ps = << >> THEN 0
    ELSE Head(ps).quantity * close + PositionValue(Tail(ps), close)

\* (mutant) the peak is not raised
NewPeak_Stale(peak, eq) == peak

\* _update_equity, line 267
NewPeak(peak, eq) == Max(peak, eq)

\* (mutant) the forced close sells at the close price itself
ForcedExitPrice_NoSlippage(r, p) == r.close

\* _close_all_positions, line 272: the price of the forced close
ForcedExitPrice(r, p) == MulDiv(r.close, BP - p.slippage, BP)

\* _close_all_positions, the loop of lines 271-289; st carries trades and cash
RECURSIVE CloseAllLoop(_, _, _, _)
CloseAllLoop(ps, st, r, p) ==
    IF ps = << >> THEN st
    ELSE
      LET pos == Head(ps)
          t == MakeTrade(pos, ForcedExitPrice(r, p), "CLOSE", r.timestamp, p)
          exit_fee == t.total_fee - pos.entry_fee
      IN CloseAllLoop(Tail(ps),
           [ trades |-> Append(st.trades, t),
             cash   |-> st.cash + t.exit_price * pos.quantity - exit_fee ], r, p)

\* the daily loss cap as the ledger stands
CapReached(dpnl, eq) == DailyLossReached(dpnl, eq, params)

\* ------------------------------------------------------------------------
\* The live objects as constructed
\* ------------------------------------------------------------------------
\* the tp_pct and sl_pct a LiveTrader is constructed with: a stop of 5%, so
\* that a position costs a fifth of the equity and the venue balance covers it
TraderArgs == [tp_pct |-> 400, sl_pct |-> 500]

\* LiveTrader.__init__ with no state file to load
NewTrader ==
    [ connected       |-> FALSE,
      tp_pct          |-> TraderArgs.tp_pct,
      sl_pct          |-> TraderArgs.sl_pct,
      positions       |-> << >>,
      trade_history   |-> << >>,
      initial_equity  |-> 0,
      current_equity  |-> 0,
      peak_equity     |-> 0,
      daily_pnl       |-> 0,
      daily_date      |-> 0,
      circuit_breaker |-> FALSE,
      last_price      |-> 0 ]

\* RiskManager.__init__ with the defaults of config.py
NewRiskManager ==
    [ current_equity         |-> INITIAL_CAPITAL,
      peak_equity            |-> INITIAL_CAPITAL,
      open_trade_count       |-> 0,
      circuit_breaker_active |-> FALSE,
      daily_pnl              |-> 0,
      current_date           |-> 0,
      daily_start_equity     |-> INITIAL_CAPITAL ]

\* OrderManager.__init__
NewOrderManager == [positions |-> << >>, position_counter |-> 0]

\* LiveTradingEngine.__init__; candle_buffer is len(_candle_buffer), counted
\* up to MIN_CANDLES (the only thing the engine reads of it)
NewLiveEngine ==
    [running |-> "created", candle_buffer |-> 0, stop_steps |-> << >>,
     last_kline |-> [is_closed |-> FALSE, evaluated |-> FALSE]]

\* the live objects and the venue before a live program is started
LiveObjects ==
    /\ today = 1
    /\ usdt = INITIAL_CAPITAL
    /\ events = 0
    /\ trader = NewTrader
    /\ state_file = << >>
    /\ risk_manager = NewRiskManager
    /\ order_manager = NewOrderManager
    /\ live_engine = NewLiveEngine
    /\ seen_today = FALSE
    /\ closed_today = 0
    /\ orders = << >>
    /\ last_event = "none"

LiveOff == engine = "none" /\ LiveObjects

\* no decision made yet
NoDecision == [made |-> FALSE, admit |-> FALSE, quantity |-> 0]

NoRiskState ==
    [ active |-> FALSE, open_count |-> 0, daily_pnl |-> 0, equity |-> 0,
      start_equity |-> 0, cash |-> 0, price |-> 0, sl_pct |-> 0 ]

\* no sizing asked for yet
NoSize == [made |-> FALSE, quantity |-> 0]

NoSizeArgs == [equity |-> 0, entry_price |-> 0, sl_price |-> 0]

SizingOff ==
    /\ size_args = NoSizeArgs
    /\ sizes = [bt |-> NoSize, rm |-> NoSize]

\* run_grid_search was not called
NoSweep == [base_df |-> << >>, todo |-> {}, workers |-> << >>, results |-> {}]

SweepOff == sweep = NoSweep

\* no order quantity is looked at
NoLotOrder ==
    [ step |-> [text |-> "", units |-> 0, places |-> 0], requested |-> 0,
      by |-> "none", sent |-> << >>, held |-> 0, sold |-> 0 ]

LotOff == lot_order = NoLotOrder

\* no tick has read a candle
NoCandle == [candle |-> 0, opened |-> 0]

CandleOff == tick_candle = NoCandle

RiskOff ==
    /\ risk_state = NoRiskState
    /\ decisions = [bt |-> NoDecision, lt |-> NoDecision, rm |-> NoDecision]
    /\ SizingOff
    /\ SweepOff
    /\ LotOff
    /\ CandleOff

\* ------------------------------------------------------------------------
\* Backtester: the steps of run()
\* ------------------------------------------------------------------------
\* __init__: params given, then _reset()
BacktesterInit(ps) ==
    /\ params \in ps
    /\ cash = params.initial_capital
    /\ equity = params.initial_capital
    /\ peak_equity = params.initial_capital
    /\ positions = << >>
    /\ trades = << >>
    /\ equity_curve = << >>
    /\ circuit_breaker_active = FALSE
    /\ current_date = 0
    /\ daily_pnl = 0
    /\ pc = "constructed"
    /\ i = 0
    /\ row = NoRow
    /\ last = NoRow
    /\ can_open = "none"
    /\ cap_hit = FALSE
    /\ cap_hit_prev = FALSE
    /\ reset_of = NoReset

\* a Backtester is constructed; no live program runs
Init ==
    /\ BacktesterInit(ParamSets)
    /\ LiveOff
    /\ RiskOff

\* run(), line 90: _reset() and the start of the loop
Run ==
    /\ pc \in {"constructed", "done"}
    /\ LET fresh == Reset(params)
       IN /\ cash' = fresh.cash
          /\ equity' = fresh.equity
          /\ peak_equity' = fresh.peak_equity
          /\ positions' = fresh.positions
          /\ trades' = fresh.trades
          /\ equity_curve' = fresh.equity_curve
          /\ circuit_breaker_active' = fresh.circuit_breaker_active
          /\ current_date' = fresh.current_date
          /\ daily_pnl' = fresh.daily_pnl
    /\ reset_of' = [trades |-> Len(trades), breaker |-> circuit_breaker_active]
    /\ pc' = "loop"
    /\ i' = 0
    /\ row' = NoRow
    /\ last' = NoRow
    /\ can_open' = "none"
    /\ cap_hit' = FALSE
    /\ cap_hit_prev' = FALSE
    /\ UNCHANGED << params, livevars, riskvars, sweepvars, lotvars, candlevars >>

\* lines 98-103: the next row of df, and _update_daily_tracking
NextCandle ==
    /\ pc = "loop"
    /\ i < MaxCandles
    /\ \E k \in Candles, newday \in BOOLEAN :
         LET date == IF i = 0 THEN 1 ELSE last.date + (IF newday THEN 1 ELSE 0)
             r == [timestamp |-> i + 1, date |-> date, low |-> k.low,
                   high |-> k.high, close |-> k.close, signal |-> k.signal]
             d == UpdateDailyTracking(current_date, daily_pnl, date)
         IN /\ (i = 0 => newday)
            /\ date <= MaxDays
            /\ row' = r
            /\ current_date' = d.current_date
            /\ daily_pnl' = d.daily_pnl
            /\ cap_hit' = ((cap_hit /\ d.current_date = current_date)
                           \/ CapReached(d.daily_pnl, equity))
            /\ cap_hit_prev' = (IF d.current_date = current_date
                                THEN cap_hit_prev ELSE cap_hit)
    /\ pc' = "exits"
    /\ can_open' = "none"
    /\ reset_of' = NoReset
    /\ UNCHANGED << params, cash, equity, peak_equity, positions, trades,
                    equity_curve, circuit_breaker_active, i, last >>
    /\ UNCHANGED << livevars, riskvars, sweepvars, lotvars, candlevars >>

\* line 106: _check_exits(row)
CheckExits ==
    /\ pc = "exits"
    /\ LET st == CheckExitsLoop(1, positions,
                   [trades |-> trades, cash |-> cash, daily_pnl |-> daily_pnl,
                    closed |-> {}], row, params)
       IN /\ trades' = st.trades
          /\ cash' = st.cash
          /\ daily_pnl' = st.daily_pnl
          /\ positions' = Remaining(1, positions, st.closed)
          /\ cap_hit' = (cap_hit \/ CapReached(st.daily_pnl, equity))
    /\ row' = [row EXCEPT !.low = 0, !.high = 0]
    /\ pc' = "breaker"
    /\ UNCHANGED << params, equity, peak_equity, equity_curve,
                    circuit_breaker_active, current_date, i, last, can_open,
                    cap_hit_prev, reset_of >>
    /\ UNCHANGED << livevars, riskvars, sweepvars, lotvars, candlevars >>

\* line 109: _check_circuit_breaker()
CheckBreaker ==
    /\ pc = "breaker"
    /\ circuit_breaker_active' =
         CheckCircuitBreaker(circuit_breaker_active, peak_equity, equity, params)
    /\ pc' = "entry"
    /\ UNCHANGED << params, cash, equity, peak_equity, positions, trades,
                    equity_curve, current_date, daily_pnl, i, row, last,
                    can_open, cap_hit, cap_hit_prev, reset_of >>
    /\ UNCHANGED << livevars, riskvars, sweepvars, lotvars, candlevars >>

\* lines 112-113: if row.signal == 1: _try_open_position(row)
TryOpenPosition ==
    /\ pc = "entry"
    /\ IF row.signal = 1
       THEN LET ok == CanOpenTrade(circuit_breaker_active, Len(positions),
                                   equity, daily_pnl, params)
                pos == SizedPosition(cash, equity, row, params)
            IN /\ can_open' = (IF ok THEN "yes" ELSE "no")
               /\ IF ok /\ Opens(cash, equity, row, params)
                  THEN /\ cash' = cash - TotalCost(pos.entry_price, pos.quantity, params)
                       /\ positions' = Append(positions, pos)
                  ELSE UNCHANGED << cash, positions >>
       ELSE UNCHANGED << can_open, cash, positions >>
    /\ row' = [row EXCEPT !.signal = 0]
    /\ pc' = "equity"
    /\ UNCHANGED << params, equity, peak_equity, trades, equity_curve,
                    circuit_breaker_active, current_date, daily_pnl, i,
                    last, cap_hit, cap_hit_prev, reset_of >>
    /\ UNCHANGED << livevars, riskvars, sweepvars, lotvars, candlevars >>

\* lines 116-120: _update_equity(row) and the equity snapshot
UpdateEquity ==
    /\ pc = "equity"
    /\ LET eq == cash + PositionValue(positions, row.close)
       IN /\ equity' = eq
          /\ peak_equity' = NewPeak(peak_equity, eq)
          /\ equity_curve' = Append(equity_curve,
                                    [timestamp |-> row.timestamp, equity |-> eq])
          /\ cap_hit' = (cap_hit \/ CapReached(daily_pnl, eq))
    /\ i' = i + 1
    /\ last' = [row EXCEPT !.low = 0, !.high = 0, !.signal = 0]
    /\ row' = NoRow
    /\ pc' = "loop"
    /\ UNCHANGED << params, cash, positions, trades, circuit_breaker_active,
                    current_date, daily_pnl, can_open, cap_hit_prev, reset_of >>
    /\ UNCHANGED << livevars, riskvars, sweepvars, lotvars, candlevars >>

\* lines 122-133: the end of df; _close_all_positions(df.iloc[-1]) if any row
Finish ==
    /\ pc = "loop"
    /\ IF i > 0
       THEN LET st == CloseAllLoop(positions, [trades |-> trades, cash |-> cash],
                                   last, params)
            IN /\ trades' = st.trades
               /\ cash' = st.cash
               /\ positions' = << >>
               /\ equity' = st.cash
       ELSE UNCHANGED << trades, cash, positions, equity >>
    /\ pc' = "done"
    /\ reset_of' = NoReset
    /\ UNCHANGED << params, peak_equity, equity_curve, circuit_breaker_active,
                    current_date, daily_pnl, i, row, last, can_open, cap_hit,
                    cap_hit_prev >>
    /\ UNCHANGED << livevars, riskvars, sweepvars, lotvars, candlevars >>

Next ==
    \/ Run
    \/ NextCandle
    \/ CheckExits
    \/ CheckBreaker
    \/ TryOpenPosition
    \/ UpdateEquity
    \/ Finish

Spec == Init /\ [][Next]_vars

\* a Backtester constructed with one of the edge configurations
EdgeInit ==
    /\ BacktesterInit(EdgeParamSets)
    /\ LiveOff
    /\ RiskOff

EdgeSpec == EdgeInit /\ [][Next]_vars

\* ========================================================================
\* Claims about a simulation run
\* ========================================================================
\* the candle being processed is the first of its date, after an earlier date
FirstOfNextDate == i > 0 /\ row.date # last.date

\* the trades appended by the step being taken
NewTrades == { j \in 1..Len(trades') : j > Len(trades) }

RECURSIVE SumPnl(_, _)
SumPnl(ts, js) ==
    IF js = {} THEN 0
    ELSE LET j == CHOOSE x \in js : TRUE
         IN ts[j].pnl + SumPnl(ts, js \ {j})

\* the net P&L realised by the exits of the candle being processed
CandleExitPnl ==
    SumPnl(trades, { j \in 1..Len(trades) : trades[j].exit_time = row.timestamp })

\* ---- C1 ----------------------------------------------------------------
\* C1: at every point of a simulation run the number of open positions is at
\* most max_open_trades.
C1_OpenCountBounded == Len(positions) <= params.max_open_trades

\* Two positions are open with max_open_trades = 2, a third buy signal has
\* just been refused for that reason alone, and no position was created.
C1_Witness ==
    /\ pc = "equity"
    /\ can_open = "no"
    /\ params.max_open_trades = 2
    /\ Len(positions) = 2
    /\ ~circuit_breaker_active
    /\ ~CapReached(daily_pnl, equity)

\* ---- C2 ----------------------------------------------------------------
\* C2: within a run, a step taken with circuit_breaker_active true leaves it
\* true and opens no position (the flag is cleared only by the _reset() that
\* starts the next run).
C2_BreakerLatched ==
    [][ (circuit_breaker_active /\ pc # "done")
           => (circuit_breaker_active' /\ Len(positions') <= Len(positions)) ]_vars

\* The breaker is active, equity has since recovered to a new peak above the
\* initial capital, and a buy signal has just been refused.
C2_Witness ==
    /\ pc = "equity"
    /\ circuit_breaker_active
    /\ can_open = "no"
    /\ equity = peak_equity
    /\ peak_equity > params.initial_capital

\* ---- C3 ----------------------------------------------------------------
\* C3: after every candle's mark-to-market, a drawdown of at least
\* circuit_breaker_dd has circuit_breaker_active set on that same candle.
C3_TripsOnSameCandle ==
    (pc = "loop" /\ i > 0 /\ peak_equity > 0
       /\ RatioAtLeast(peak_equity - equity, peak_equity, params.circuit_breaker_dd))
    => circuit_breaker_active

\* ---- C4 ----------------------------------------------------------------
\* C4: within a run peak_equity never decreases, and peak_equity >= equity
\* after every step, the mark-to-market and the forced close included.
C4_PeakIsRunningMax ==
    [][ /\ (pc # "done" => peak_equity' >= peak_equity)
        /\ peak_equity' >= equity' ]_vars

\* A finished run whose peak rose above the initial capital and whose last
\* positions were closed by the forced close, below the peak.
C4_Witness ==
    /\ pc = "done"
    /\ peak_equity > params.initial_capital
    /\ equity < peak_equity
    /\ \E j \in 1..Len(trades) : trades[j].side = "CLOSE"

\* ---- C5 ----------------------------------------------------------------
\* C5: in the exit check every open position with row.low <= sl_price is
\* closed with reason SL whatever row.high is, and a position is closed with
\* reason TP only when row.low > sl_price and row.high >= tp_price.
C5_StopLossFirst ==
    [][ pc = "exits" =>
          \A k \in 1..Len(positions) :
            LET pos == positions[k]
                ClosedAs(side) ==
                    \E j \in NewTrades :
                        /\ trades'[j].entry_time = pos.entry_time
                        /\ trades'[j].side = side
                StillOpen ==
                    \E m \in 1..Len(positions') : positions'[m] = pos
            IN /\ row.low <= pos.sl_price
                    => (ClosedAs("SL") /\ ~ClosedAs("TP") /\ ~StillOpen)
               /\ ClosedAs("TP")
                    => (row.low > pos.sl_price /\ row.high >= pos.tp_price) ]_vars

\* A position has just been closed with reason SL by a candle that closed
\* above its take-profit price (so the candle's high crossed it too).
C5_Witness ==
    /\ pc = "breaker"
    /\ \E j \in 1..Len(trades) :
         /\ trades[j].exit_time = row.timestamp
         /\ trades[j].side = "SL"
         /\ row.close >= TpPrice(trades[j].entry_price, params)

\* ---- C6 ----------------------------------------------------------------
\* a slot is free, the breaker is inactive and the cash buys at least one lot
OtherConditionsHold ==
    /\ ~circuit_breaker_active
    /\ Len(positions) < params.max_open_trades
    /\ SizedPosition(cash, equity, row, params).quantity > 0

\* C6 as claimed: once the day's realised losses have reached the cap, every
\* later buy signal of that date is refused; on the first candle of the next
\* date the signal is admitted provided the breaker is inactive, a slot is
\* free and cash is available.
C6_DailyCapAsClaimed ==
    [][ (pc = "entry" /\ row.signal = 1) =>
          /\ cap_hit => positions' = positions
          /\ (FirstOfNextDate /\ cap_hit_prev /\ OtherConditionsHold)
                => Len(positions') = Len(positions) + 1 ]_vars

\* C6 (amended): a buy signal is refused whenever the cap is reached at its
\* admission check, |min(0, daily_pnl)| / equity >= max_daily_loss with the
\* equity of the last mark-to-market; on the first candle of the next date
\* the signal is admitted provided the breaker is inactive, a slot is free,
\* cash is available and the exits of that candle have not themselves
\* reached the cap.
C6_DailyCapAtCheck ==
    [][ (pc = "entry" /\ row.signal = 1) =>
          /\ CapReached(daily_pnl, equity)
                => (positions' = positions /\ cash' = cash)
          /\ (FirstOfNextDate /\ cap_hit_prev /\ OtherConditionsHold
                /\ ~CapReached(CandleExitPnl, equity))
                => Len(positions') = Len(positions) + 1 ]_vars

\* The cap was reached on the previous date, a position was stopped on it, and
\* the buy signal of the first candle of the next date has just been admitted
\* and opened a position.
C6_Witness ==
    /\ pc = "equity"
    /\ FirstOfNextDate
    /\ cap_hit_prev
    /\ can_open = "yes"
    /\ Len(positions) > 0
    /\ positions[Len(positions)].entry_time = row.timestamp
    /\ \E j \in 1..Len(trades) : trades[j].side = "SL"

\* ---- C7 ----------------------------------------------------------------
\* C7: daily_pnl is set to 0 by the row whose date differs from the stored
\* date, before that row's exits, and by no other row; otherwise it changes
\* only in the exit check, by the net P&L of the TP/SL trades appended there.
C7_DailyPnlReset ==
    [][ /\ (pc = "loop" /\ pc' = "exits") =>
              IF row'.date # current_date
              THEN daily_pnl' = 0 /\ current_date' = row'.date
              ELSE daily_pnl' = daily_pnl /\ current_date' = current_date
        /\ pc = "exits" =>
              /\ daily_pnl' = daily_pnl + SumPnl(trades', NewTrades)
              /\ \A j \in NewTrades : trades'[j].side \in {"TP", "SL"}
              /\ current_date' = current_date
        /\ (pc \in {"breaker", "entry", "equity"} \/ (pc = "loop" /\ pc' = "done"))
              => (daily_pnl' = daily_pnl /\ current_date' = current_date) ]_vars

\* On the first row of a new date a position has just been closed: a trade
\* was closed on the previous row (the previous date) and daily_pnl holds the
\* P&L of the new date's trade only.
C7_Witness ==
    /\ pc = "breaker"
    /\ FirstOfNextDate
    /\ \E a \in 1..Len(trades), b \in 1..Len(trades) :
         /\ trades[a].exit_time = last.timestamp
         /\ trades[b].exit_time = row.timestamp
         /\ daily_pnl = trades[b].pnl
         /\ trades[a].pnl # 0

\* ---- C9 ----------------------------------------------------------------
\* C9: every admission check returns False exactly when the breaker is
\* active, or the open positions number max_open_trades or more, or
\* |min(0, daily_pnl)| / equity >= max_daily_loss (equity is positive at every
\* check); the check changes nothing of the ledger, and a refusal leaves cash
\* and positions as they are.
C9_AdmissionRule ==
    [][ (pc = "entry" /\ row.signal = 1) =>
          /\ equity > 0
          /\ can_open' \in {"yes", "no"}
          /\ (can_open' = "no") <=>
                \/ circuit_breaker_active
                \/ Len(positions) >= params.max_open_trades
                \/ RatioAtLeast(Abs(Min(0, daily_pnl)), equity, params.max_daily_loss)
          /\ can_open' = "no" => (positions' = positions /\ cash' = cash)
          /\ UNCHANGED << equity, peak_equity, trades, circuit_breaker_active,
                          daily_pnl, current_date >> ]_vars

\* A buy signal has just been refused for the daily loss alone: the breaker
\* is inactive and a slot is free.
C9_Witness ==
    /\ pc = "equity"
    /\ can_open = "no"
    /\ ~circuit_breaker_active
    /\ Len(positions) < params.max_open_trades
    /\ daily_pnl < 0

\* ---- C12 ---------------------------------------------------------------
\* the position appended by the step being taken
OpenedPosition == positions'[Len(positions')]

\* the step being taken is an open attempt whose quantity was clamped to
\* the cash and came out as zero or less
ClampGivesNothing ==
    LET entry_price == EntryPrice(row.close, params)
        sl_price == SlPrice(entry_price, params)
    IN /\ pc = "entry" /\ row.signal = 1
       /\ CanOpenTrade(circuit_breaker_active, Len(positions), equity,
                       daily_pnl, params)
       /\ entry_price - sl_price > 0
       /\ CostExceedsCash(cash, equity, entry_price, sl_price, params)
       /\ ClampToCash(cash, entry_price, params) <= 0

\* C12: every admitted open satisfies quantity * entry_price *
\* (1 + trading_fee) <= cash held just before the open, so cash is never
\* negative; when the clamp to the cash yields a quantity <= 0 the attempt
\* is abandoned and cash and positions are unchanged.
C12_CashCoversOpen ==
    [][ /\ (pc = "entry" /\ Len(positions') > Len(positions))
              => TotalCost(OpenedPosition.entry_price, OpenedPosition.quantity,
                           params) <= cash
        /\ cash' >= 0
        /\ ClampGivesNothing => (cash' = cash /\ positions' = positions) ]_vars

\* ---- C13 ---------------------------------------------------------------
\* C13: no position with quantity <= 0 is ever among the open positions of
\* a simulation run, whatever the configuration and the equity
\* (risk_per_trade = 0 and equity = 0 included).
C13_NoEmptyPosition ==
    \A k \in 1..Len(positions) : positions[k].quantity > 0

\* ---- C14 ---------------------------------------------------------------
\* what the sale of the positions ps brings at exit_price, fees deducted
RECURSIVE SaleProceeds(_, _)
SaleProceeds(ps, exit_price) ==
    IF ps = << >> THEN 0
    ELSE exit_price * Head(ps).quantity
         - MulDiv(exit_price * Head(ps).quantity, params.trading_fee, BP)
         + SaleProceeds(Tail(ps), exit_price)

\* C14: the step that ends a run over at least one candle closes every
\* remaining open position, in order, at the last candle's close less the
\* exit slippage, with the forced-close reason and the exit fee deducted from
\* the proceeds; it leaves no open position and equity equal to cash.
C14_EndsFlat ==
    [][ (pc = "loop" /\ pc' = "done" /\ i > 0) =>
          LET exit_price == (last.close * (BP - params.slippage)) \div BP
          IN /\ positions' = << >>
             /\ equity' = cash'
             /\ cash' = cash + SaleProceeds(positions, exit_price)
             /\ Len(trades') = Len(trades) + Len(positions)
             /\ \A k \in 1..Len(trades) : trades'[k] = trades[k]
             /\ \A k \in 1..Len(positions) :
                   LET pos == positions[k]
                       t == trades'[Len(trades) + k]
                   IN /\ t.side = "CLOSE"
                      /\ t.entry_time = pos.entry_time
                      /\ t.quantity = pos.quantity
                      /\ t.exit_time = last.timestamp
                      /\ t.exit_price = exit_price ]_vars

\* A run has ended by force-closing two positions that were open after its
\* last candle; none is open and equity is the cash.
C14_Witness ==
    /\ pc = "done"
    /\ i > 0
    /\ positions = << >>
    /\ equity = cash
    /\ \E a \in 1..Len(trades), b \in 1..Len(trades) :
         /\ a < b
         /\ trades[a].side = "CLOSE" /\ trades[b].side = "CLOSE"
         /\ trades[a].exit_time = last.timestamp
         /\ trades[b].exit_time = last.timestamp

\* ---- C15 ---------------------------------------------------------------
\* C15: nothing of an earlier run survives the start of the next: whatever
\* the Backtester held, the step that starts a run leaves cash, equity and
\* peak at the initial capital, no position, no trade, no equity snapshot,
\* the breaker flag clear and the daily trackers unset, which is the state
\* of a newly constructed Backtester with the same parameters, and no step
\* changes the parameters; the run that follows is a function of that state,
\* the parameters and the rows alone, so the same rows give the same trade
\* log and equity curve.
C15_RunStartsFresh ==
    [][ /\ params' = params
        /\ (pc \in {"constructed", "done"} /\ pc' = "loop") =>
          /\ cash' = params.initial_capital
          /\ equity' = params.initial_capital
          /\ peak_equity' = params.initial_capital
          /\ positions' = << >>
          /\ trades' = << >>
          /\ equity_curve' = << >>
          /\ ~circuit_breaker_active'
          /\ current_date' = 0
          /\ daily_pnl' = 0
          /\ i' = 0 ]_vars

\* run() has just been called again on a Backtester whose last run had left
\* trades and an active breaker, and the ledger is that of a new Backtester.
C15_Witness ==
    /\ pc = "loop"
    /\ i = 0
    /\ reset_of.trades > 0
    /\ reset_of.breaker
    /\ trades = << >>
    /\ ~circuit_breaker_active
    /\ cash = params.initial_capital

\* ---- C16 ---------------------------------------------------------------
\* sum of quantity * price over the positions ps[k], ..., ps[Len(ps)]
RECURSIVE MarkedValue(_, _, _)
MarkedValue(ps, k, price) ==
    IF k > Len(ps) THEN 0
    ELSE ps[k].quantity * price + MarkedValue(ps, k + 1, price)

\* C16: a run holds exactly one equity snapshot per processed candle, in
\* candle order; the snapshot is appended by the candle's last step, carries
\* the candle's timestamp, and its equity is cash plus the sum of quantity *
\* close over the positions open at the end of that candle; no other step
\* of the run touches the snapshots.
C16_OneSnapshotPerCandle ==
    [][ /\ Len(equity_curve') = i'
        /\ \A k \in 1..Len(equity_curve') : equity_curve'[k].timestamp = k
        /\ pc = "equity" =>
              /\ Len(equity_curve') = Len(equity_curve) + 1
              /\ \A k \in 1..Len(equity_curve) : equity_curve'[k] = equity_curve[k]
              /\ equity_curve'[Len(equity_curve')].timestamp = row.timestamp
              /\ equity_curve'[Len(equity_curve')].equity
                    = cash' + MarkedValue(positions', 1, row.close)
        /\ pc \in {"loop", "exits", "breaker", "entry"}
              => equity_curve' = equity_curve ]_vars

\* Three candles have been processed and three snapshots taken; the last
\* has a position open at its end, worth more than the cash, and differs
\* from the one before.
C16_Witness ==
    /\ pc = "loop"
    /\ i = 3
    /\ Len(equity_curve) = 3
    /\ positions # << >>
    /\ equity_curve[3].equity = cash + MarkedValue(positions, 1, last.close)
    /\ equity_curve[3].equity > 2 * cash
    /\ equity_curve[3].equity # equity_curve[2].equity

\* ========================================================================
\* The live programs
\* ========================================================================
\* symbol_info: the LOT_SIZE step (0.001 coin, in lots, reported by the
\* venue as the string "0.001") and the least notional of an order
\* (10 USDT)
StepSize == 10
MinNotional == 10 * Unit

\* _adjust_quantity for that step string: round down to three decimals,
\* here a multiple of the lot step (AdjustQuantityTo has the other strings)
AdjustQuantity(quantity) == (quantity \div StepSize) * StepSize

\* net P&L of a close, as LiveTrader._close_position and
\* OrderManager._close_position compute it
LiveNetPnl(entry_price, quantity, exit_price) ==
    LET gross_pnl == (exit_price - entry_price) * quantity
        entry_fee == MulDiv(entry_price * quantity, TRADING_FEE, BP)
        exit_fee == MulDiv(exit_price * quantity, TRADING_FEE, BP)
    IN gross_pnl - entry_fee - exit_fee

\* ------------------------------------------------------------------------
\* The venue: a market order either fails or fills whole at the market
\* price, the venue taking TRADING_FEE of the quote amount; a BUY that the
\* free balance does not cover is rejected (code -2010).
\* ------------------------------------------------------------------------
VenueFee(price, quantity) == MulDiv(price * quantity, TRADING_FEE, BP)

\* How the venue answers the attempts of one order:
\*   "fill"        the first create_order returns a filled order;
\*   "retry_fill"  the first raises a BinanceAPIException with a code that
\*                 is not a permanent rejection, the second fills;
\*   "reject"      every attempt raises a permanent rejection (code -2010,
\*                 -1013 or -1111);
\*   "error"       every attempt raises a BinanceAPIException with another
\*                 code.
VenueOutcomes == {"fill", "retry_fill", "reject", "error"}

\* the answer to a BUY: the balance must cover it
VenueBuyAnswer(balance, price, quantity, outcome) ==
    IF price * quantity + VenueFee(price, quantity) > balance
    THEN "reject"
    ELSE outcome

\* the attempt-th create_order of an order returns a filled order
AttemptFills(outcome, attempt) ==
    \/ outcome = "fill"
    \/ outcome = "retry_fill" /\ attempt >= 2

\* LiveTrader.MAX_RETRIES and BinanceConnector.MAX_RETRIES
MAX_RETRIES == 3

\* BinanceConnector.RETRY_DELAY_BASE, and the 2 of time.sleep(2 ** attempt)
RETRY_DELAY_BASE == 2

\* the result of a retry loop that ended at this attempt: whether a venue
\* response was returned, the number of calls made, the sleeps made (in
\* seconds, in order) and whether the loop was left by an exception
LoopResult(filled, attempt, raised) ==
    [ filled |-> filled, attempts |-> attempt, waits |-> << >>,
      raised |-> raised ]

\* sleep(RETRY_DELAY_BASE ** attempt) before the rest of the loop
SleepThen(attempt, rest) ==
    [rest EXCEPT !.waits = << RETRY_DELAY_BASE ^ attempt >> \o @]

\* (mutant) the loop makes one attempt more than MAX_RETRIES
RECURSIVE PlaceMarketOrder_OneMore(_, _)
PlaceMarketOrder_OneMore(outcome, attempt) ==
    IF AttemptFills(outcome, attempt)
    THEN LoopResult(TRUE, attempt, FALSE)
    ELSE IF outcome = "reject"
         THEN LoopResult(FALSE, attempt, TRUE)
    ELSE IF attempt <= MAX_RETRIES
         THEN SleepThen(attempt, PlaceMarketOrder_OneMore(outcome, attempt + 1))
         ELSE LoopResult(FALSE, attempt, TRUE)

\* LiveTrader._open_position, lines 290-311: the retry loop of the BUY
\* order from the attempt-th attempt on; a permanent rejection is logged
\* and the method returns, the last transient error is raised to the
\* except branch of the method (line 345), which logs it
RECURSIVE LtBuyOrder(_, _)
LtBuyOrder(outcome, attempt) ==
    IF AttemptFills(outcome, attempt)
    THEN LoopResult(TRUE, attempt, FALSE)
    ELSE IF outcome = "reject"
         THEN LoopResult(FALSE, attempt, FALSE)
    ELSE IF attempt < MAX_RETRIES
         THEN SleepThen(attempt, LtBuyOrder(outcome, attempt + 1))
         ELSE LoopResult(FALSE, attempt, TRUE)

\* LiveTrader._close_position, lines 374-392: the retry loop of the SELL
\* order; the code of the exception is not looked at, and after the last
\* attempt the error is logged and the method returns
RECURSIVE LtSellOrder(_, _)
LtSellOrder(outcome, attempt) ==
    IF AttemptFills(outcome, attempt)
    THEN LoopResult(TRUE, attempt, FALSE)
    ELSE IF attempt < MAX_RETRIES
         THEN SleepThen(attempt, LtSellOrder(outcome, attempt + 1))
         ELSE LoopResult(FALSE, attempt, FALSE)

\* BinanceConnector.place_market_order, lines 141-187: the retry loop; a
\* permanent rejection and the last transient error are re-raised
RECURSIVE PlaceMarketOrder(_, _)
PlaceMarketOrder(outcome, attempt) ==
    IF AttemptFills(outcome, attempt)
    THEN LoopResult(TRUE, attempt, FALSE)
    ELSE IF outcome = "reject"
         THEN LoopResult(FALSE, attempt, TRUE)
    ELSE IF attempt < MAX_RETRIES
         THEN SleepThen(attempt, PlaceMarketOrder(outcome, attempt + 1))
         ELSE LoopResult(FALSE, attempt, TRUE)

\* BinanceConnector.get_account_balance, lines 65-82: the retry loop; every
\* BinanceAPIException or BinanceRequestException is retried
RECURSIVE GetAccountBalance(_, _)
GetAccountBalance(outcome, attempt) ==
    IF AttemptFills(outcome, attempt)
    THEN LoopResult(TRUE, attempt, FALSE)
    ELSE IF attempt < MAX_RETRIES
         THEN SleepThen(attempt, GetAccountBalance(outcome, attempt + 1))
         ELSE LoopResult(FALSE, attempt, TRUE)

\* how the venue answers get_account: at once, at the second call, or with
\* an exception at every call
BalanceOutcomes == {"fill", "retry_fill", "error"}

\* the answers worth telling apart for an order that may be sent (asked);
\* when none is sent the answer is not looked at
AnswersIf(asked) == IF asked THEN VenueOutcomes ELSE {"fill"}

\* the entry of the order history for an order placed at this market price
\* and its result
OrderEntry(side, id, price, outcome, result) ==
    [ side |-> side, id |-> id, price |-> price, outcome |-> outcome,
      attempts |-> result.attempts, filled |-> result.filled,
      waits |-> result.waits, raised |-> result.raised ]

VenueAfterBuy(balance, price, quantity) ==
    balance - price * quantity - VenueFee(price, quantity)

VenueAfterSell(balance, price, quantity) ==
    balance + price * quantity - VenueFee(price, quantity)

\* ------------------------------------------------------------------------
\* LiveTrader: the methods as operators.  st carries the trader (t), the
\* venue balance (usdt) and the net P&L realised by the handler (realised).
\* ------------------------------------------------------------------------
\* _update_daily_tracking
LtUpdateDailyTracking(t, now) ==
    IF t.daily_date # now
    THEN [t EXCEPT !.daily_date = now, !.daily_pnl = 0]
    ELSE t

\* _calculate_equity: free USDT + sum of quantity * last_price
RECURSIVE LtCalculateEquity(_, _, _)
LtCalculateEquity(balance, ps, price) ==
    IF ps = << >> THEN balance
    ELSE LtCalculateEquity(balance + Head(ps).quantity * price, Tail(ps), price)

\* _check_circuit_breaker
LtCheckCircuitBreaker(t) ==
    IF t.peak_equity <= 0 THEN t
    ELSE IF /\ RatioAtLeast(t.peak_equity - t.current_equity, t.peak_equity,
                            CIRCUIT_BREAKER_DD)
            /\ ~t.circuit_breaker
         THEN [t EXCEPT !.circuit_breaker = TRUE]
         ELSE t

\* (mutant) _can_trade does not look at the breaker
LtCanTrade_IgnoresBreaker(active, npos, eq, dpnl) ==
    IF npos >= MAX_OPEN_TRADES THEN FALSE
    ELSE IF eq > 0 /\ RatioAtLeast(Abs(Min(0, dpnl)), eq, MAX_DAILY_LOSS) THEN FALSE
    ELSE TRUE

\* _can_trade
LtCanTrade(active, npos, eq, dpnl) ==
    IF active THEN FALSE
    ELSE IF npos >= MAX_OPEN_TRADES THEN FALSE
    ELSE IF eq > 0 /\ RatioAtLeast(Abs(Min(0, dpnl)), eq, MAX_DAILY_LOSS) THEN FALSE
    ELSE TRUE

\* _open_position, lines 264-280: the quantity the risk asks for, 0 when the
\* method returns before the lot rounding
LtSizeByRisk(eq, last_price, sl_pct) ==
    LET entry_price == MulDiv(last_price, BP + SLIPPAGE, BP)
        sl_price == MulDiv(entry_price, BP - sl_pct, BP)
        risk_amount == MulDiv(eq, RISK_PER_TRADE, BP)
        sl_distance == entry_price - sl_price
    IN IF sl_distance <= 0 THEN 0
       ELSE LET quantity == risk_amount \div sl_distance
            IN IF quantity * last_price < MinNotional THEN 0 ELSE quantity

\* _open_position: the BUY order and the position made from its fill
LtOpenPosition(st, buy_outcome) ==
    LET t == st.t
        quantity == AdjustQuantity(LtSizeByRisk(t.current_equity, t.last_price, t.sl_pct))
        id == Len(t.trade_history) + Len(t.positions) + 1
        answer == VenueBuyAnswer(st.usdt, t.last_price, quantity, buy_outcome)
        result == LtBuyOrder(answer, 1)
        sent == [st EXCEPT !.orders = Append(@, OrderEntry("BUY", id, st.t.last_price,
                                         answer, result))]
    IN IF quantity <= 0 THEN st
       ELSE IF ~result.filled THEN sent
       ELSE LET actual_price == t.last_price
                position ==
                    [ id          |-> id,
                      entry_price |-> actual_price,
                      quantity    |-> quantity,
                      tp_price    |-> MulDiv(actual_price, BP + t.tp_pct, BP),
                      sl_price    |-> MulDiv(actual_price, BP - t.sl_pct, BP) ]
            IN [sent EXCEPT !.t.positions = Append(@, position),
                            !.usdt = VenueAfterBuy(@, actual_price, quantity)]

\* _check_tp_sl, lines 352-356
LtExitReason(pos, last_price) ==
    IF last_price >= pos.tp_price THEN "TP"
    ELSE IF last_price <= pos.sl_price THEN "SL"
    ELSE "NONE"

\* (mutant) an active breaker also refuses the exits
LtClosePosition_HaltedByBreaker(st, pos, reason, price, sell_outcome) ==
    LET result == LtSellOrder(sell_outcome, 1)
        sent == [st EXCEPT !.orders =
                    Append(@, OrderEntry("SELL", pos.id, price, sell_outcome,
                                         result))]
    IN IF st.t.circuit_breaker \/ AdjustQuantity(pos.quantity) <= 0 THEN st
       ELSE IF ~result.filled THEN sent
       ELSE LET net_pnl == LiveNetPnl(pos.entry_price, pos.quantity, price)
                trade == [id |-> pos.id, reason |-> reason, exit_price |-> price,
                          pnl |-> net_pnl]
            IN [sent EXCEPT !.t.daily_pnl = @ + net_pnl,
                            !.t.trade_history = Append(@, trade),
                            !.usdt = VenueAfterSell(@, price, AdjustQuantity(pos.quantity)),
                            !.realised = @ + net_pnl]

\* _close_position: the SELL order filled at price, or failed
LtClosePosition(st, pos, reason, price, sell_outcome) ==
    LET result == LtSellOrder(sell_outcome, 1)
        sent == [st EXCEPT !.orders =
                    Append(@, OrderEntry("SELL", pos.id, price, sell_outcome,
                                         result))]
    IN IF AdjustQuantity(pos.quantity) <= 0 THEN st
       ELSE IF ~result.filled THEN sent
       ELSE LET net_pnl == LiveNetPnl(pos.entry_price, pos.quantity, price)
                trade == [id |-> pos.id, reason |-> reason, exit_price |-> price,
                          pnl |-> net_pnl]
            IN [sent EXCEPT !.t.daily_pnl = @ + net_pnl,
                            !.t.trade_history = Append(@, trade),
                            !.usdt = VenueAfterSell(@, price, AdjustQuantity(pos.quantity)),
                            !.realised = @ + net_pnl]

\* _check_tp_sl: every position with a reason is handed to _close_position
\* and then removed from positions, whatever the order's outcome
RECURSIVE LtCheckTpSlLoop(_, _, _, _)
LtCheckTpSlLoop(ps, st, kept, sell_outcome) ==
    IF ps = << >> THEN [st EXCEPT !.t.positions = kept]
    ELSE LET pos == Head(ps)
             reason == LtExitReason(pos, st.t.last_price)
         IN IF reason = "NONE"
            THEN LtCheckTpSlLoop(Tail(ps), st, Append(kept, pos), sell_outcome)
            ELSE LtCheckTpSlLoop(Tail(ps),
                                 LtClosePosition(st, pos, reason, st.t.last_price,
                                                 sell_outcome),
                                 kept, sell_outcome)

\* close_all, lines 442-444: every position is handed to _close_position
RECURSIVE LtCloseAllLoop(_, _, _, _)
LtCloseAllLoop(ps, st, price, sell_outcome) ==
    IF ps = << >> THEN [st EXCEPT !.t.positions = << >>]
    ELSE LtCloseAllLoop(Tail(ps),
                        LtClosePosition(st, Head(ps), "MANUAL", price, sell_outcome),
                        price, sell_outcome)

\* _save_state: the dict written to the state file
SavedState(t) ==
    << [ positions       |-> t.positions,
         initial_equity  |-> t.initial_equity,
         peak_equity     |-> t.peak_equity,
         daily_pnl       |-> t.daily_pnl,
         daily_date      |-> t.daily_date,
         circuit_breaker |-> t.circuit_breaker,
         trade_count     |-> Len(t.trade_history) ] >>

\* (mutant) _load_state does not restore the breaker flag
LoadState_DropsBreaker(t, file) ==
    IF file = << >> THEN t
    ELSE [t EXCEPT !.positions       = file[1].positions,
                   !.initial_equity  = file[1].initial_equity,
                   !.peak_equity     = file[1].peak_equity,
                   !.daily_pnl       = file[1].daily_pnl,
                   !.daily_date      = file[1].daily_date]

\* _load_state: the attributes read from the state file, if there is one
LoadState(t, file) ==
    IF file = << >> THEN t
    ELSE [t EXCEPT !.positions       = file[1].positions,
                   !.initial_equity  = file[1].initial_equity,
                   !.peak_equity     = file[1].peak_equity,
                   !.daily_pnl       = file[1].daily_pnl,
                   !.daily_date      = file[1].daily_date,
                   !.circuit_breaker = file[1].circuit_breaker]

\* (mutant) reset_state leaves the breaker flag as it is
ResetState_KeepsBreaker(t) ==
    [t EXCEPT !.positions      = << >>,
              !.daily_pnl      = 0,
              !.initial_equity = 0,
              !.peak_equity    = 0]

\* reset_state, lines 556-560: the attributes it assigns (the state file
\* is removed by the action)
ResetState(t) ==
    [t EXCEPT !.positions       = << >>,
              !.daily_pnl       = 0,
              !.circuit_breaker = FALSE,
              !.initial_equity  = 0,
              !.peak_equity     = 0]

\* ------------------------------------------------------------------------
\* RiskManager and OrderManager: the methods as operators.  st carries the
\* risk manager (rm), the order manager (om), the venue balance (usdt) and
\* the net P&L realised by the handler (realised).
\* ------------------------------------------------------------------------
\* RiskManager._update_daily_tracking
RmUpdateDailyTracking(rm, now) ==
    IF rm.current_date = 0 \/ now # rm.current_date
    THEN [rm EXCEPT !.current_date = now,
                    !.daily_pnl = 0,
                    !.daily_start_equity = rm.current_equity]
    ELSE rm

\* (mutant) the threshold itself does not trip the breaker
RmCheckCircuitBreaker_Exclusive(rm) ==
    IF rm.peak_equity <= 0 THEN rm
    ELSE IF /\ rm.peak_equity - rm.current_equity
                 > MulDiv(rm.peak_equity, CIRCUIT_BREAKER_DD, BP)
            /\ ~rm.circuit_breaker_active
         THEN [rm EXCEPT !.circuit_breaker_active = TRUE]
         ELSE rm

\* RiskManager._check_circuit_breaker
RmCheckCircuitBreaker(rm) ==
    IF rm.peak_equity <= 0 THEN rm
    ELSE IF /\ RatioAtLeast(rm.peak_equity - rm.current_equity, rm.peak_equity,
                            CIRCUIT_BREAKER_DD)
            /\ ~rm.circuit_breaker_active
         THEN [rm EXCEPT !.circuit_breaker_active = TRUE]
         ELSE rm

\* RiskManager.update_equity
RmUpdateEquity(rm, new_equity) ==
    RmCheckCircuitBreaker([rm EXCEPT !.current_equity = new_equity,
                                     !.peak_equity = Max(@, new_equity)])

\* RiskManager.can_trade, lines 88-112: the three checks
RmChecks(rm) ==
    IF rm.circuit_breaker_active THEN FALSE
    ELSE IF rm.open_trade_count >= MAX_OPEN_TRADES THEN FALSE
    ELSE IF /\ rm.daily_start_equity > 0
            /\ RatioAtLeast(Abs(Min(0, rm.daily_pnl)), rm.daily_start_equity,
                            MAX_DAILY_LOSS)
         THEN FALSE
    ELSE TRUE

\* RiskManager.can_trade: the daily window is rolled, then the checks
RmCanTrade(rm, now) == RmChecks(RmUpdateDailyTracking(rm, now))

\* RiskManager.calculate_position_size
RmCalculatePositionSize(eq, entry_price, sl_price) ==
    LET risk_amount == MulDiv(eq, RISK_PER_TRADE, BP)
        sl_distance == Abs(entry_price - sl_price)
    IN IF sl_distance <= 0 THEN 0
       ELSE LET quantity == risk_amount \div sl_distance
                cost == quantity * entry_price
            IN IF cost > MulDiv(eq, 9500, BP)
               THEN MulDiv(eq, 9500, BP) \div entry_price
               ELSE quantity

\* RiskManager.trade_opened
RmTradeOpened(rm) == [rm EXCEPT !.open_trade_count = @ + 1]

\* (mutant) a close is not counted
RmTradeClosed_NotCounted(rm) == rm

\* RiskManager.trade_closed
RmTradeClosed(rm) == [rm EXCEPT !.open_trade_count = Max(0, @ - 1)]

\* OrderManager.open_position
OmOpenPosition(st, current_price, now, buy_outcome) ==
    LET rm == RmUpdateDailyTracking(st.rm, now)
        rolled == [st EXCEPT !.rm = rm]
        slippage_price == MulDiv(current_price, BP + SLIPPAGE, BP)
        quantity == RmCalculatePositionSize(rm.current_equity, slippage_price,
                                            MulDiv(slippage_price, BP - SL_PCT, BP))
        adjusted_qty == AdjustQuantity(quantity)
        answer == VenueBuyAnswer(st.usdt, current_price, adjusted_qty, buy_outcome)
        result == PlaceMarketOrder(answer, 1)
        sent == [rolled EXCEPT !.orders =
                    Append(@, OrderEntry("BUY", st.om.position_counter + 1,
                                         current_price, answer, result))]
    IN IF ~RmChecks(rm) THEN rolled
       ELSE IF quantity <= 0 THEN rolled
       ELSE IF adjusted_qty <= 0 THEN rolled
       ELSE IF ~result.filled THEN sent
       ELSE LET actual_price == current_price
                position ==
                    [ position_id |-> st.om.position_counter + 1,
                      entry_price |-> actual_price,
                      quantity    |-> adjusted_qty,
                      tp_price    |-> MulDiv(actual_price, BP + TP_PCT, BP),
                      sl_price    |-> MulDiv(actual_price, BP - SL_PCT, BP),
                      status      |-> "OPEN" ]
            IN [sent EXCEPT !.om.position_counter = @ + 1,
                            !.om.positions = Append(@, position),
                            !.rm = RmTradeOpened(@),
                            !.usdt = VenueAfterBuy(@, actual_price, adjusted_qty)]

\* OrderManager._close_position of positions[idx]: the SELL order filled at
\* price, or failed and the position left open
OmClosePosition(st, idx, price, sell_outcome) ==
    LET position == st.om.positions[idx]
        result == PlaceMarketOrder(sell_outcome, 1)
        sent == [st EXCEPT !.orders =
                    Append(@, OrderEntry("SELL", position.position_id, price,
                                         sell_outcome, result))]
    IN IF AdjustQuantity(position.quantity) <= 0 THEN st
       ELSE IF ~result.filled THEN sent
       ELSE LET net_pnl == LiveNetPnl(position.entry_price, position.quantity, price)
                closed == [RmTradeClosed(st.rm) EXCEPT !.daily_pnl = @ + net_pnl]
            IN [sent EXCEPT !.om.positions[idx].status = "CLOSED",
                            !.rm = RmUpdateEquity(closed, closed.current_equity + net_pnl),
                            !.usdt = VenueAfterSell(@, price, AdjustQuantity(position.quantity)),
                            !.realised = @ + net_pnl]

\* OrderManager.check_tp_sl, lines 156-161
OmShouldClose(position, current_price) ==
    IF current_price >= position.tp_price THEN TRUE
    ELSE IF current_price <= position.sl_price THEN TRUE
    ELSE FALSE

\* (mutant) the loops do not look at the status of a position
RECURSIVE OmCloseLoop_IgnoresStatus(_, _, _, _, _)
OmCloseLoop_IgnoresStatus(idx, st, price, sell_outcome, every) ==
    IF idx > Len(st.om.positions) THEN st
    ELSE LET position == st.om.positions[idx]
         IN IF every \/ OmShouldClose(position, price)
            THEN OmCloseLoop_IgnoresStatus(idx + 1,
                     OmClosePosition(st, idx, price, sell_outcome),
                     price, sell_outcome, every)
            ELSE OmCloseLoop_IgnoresStatus(idx + 1, st, price, sell_outcome,
                                           every)

\* the loops of check_tp_sl (every = FALSE) and of close_all_positions
\* (every = TRUE) over the open positions, from index idx on
RECURSIVE OmCloseLoop(_, _, _, _, _)
OmCloseLoop(idx, st, price, sell_outcome, every) ==
    IF idx > Len(st.om.positions) THEN st
    ELSE LET position == st.om.positions[idx]
         IN IF position.status = "OPEN" /\ (every \/ OmShouldClose(position, price))
            THEN OmCloseLoop(idx + 1, OmClosePosition(st, idx, price, sell_outcome),
                             price, sell_outcome, every)
            ELSE OmCloseLoop(idx + 1, st, price, sell_outcome, every)

\* ------------------------------------------------------------------------
\* The live programs: their events
\* ------------------------------------------------------------------------
\* the prices the venue quotes: from either one the other is beyond the
\* take-profit or the stop-loss of a position entered there
LivePrices == {9400, 10500}

\* what a live program finds when it is started: the state file of an
\* earlier session, if any, and the free USDT of the account
FirstSession == [file |-> << >>, usdt |-> INITIAL_CAPITAL]

\* the file and the balance a LiveTrader session leaves that opened 0.212
\* coin at 9400 on a 10000 USDT account, lost the position at 10500 to a
\* SELL that failed (peak 10231.2072, balance 8005.2072) and tripped its
\* breaker on the next tick, on the date the new session starts
TrippedSession ==
    [ file |-> << [ positions       |-> << >>,
                    initial_equity  |-> INITIAL_CAPITAL,
                    peak_equity     |-> 102312072,
                    daily_pnl       |-> 0,
                    daily_date      |-> 1,
                    circuit_breaker |-> TRUE,
                    trade_count     |-> 0 ] >>,
      usdt |-> 80052072 ]

\* only LiveTrader keeps a state file
Sessions ==
    IF engine = "polling" THEN {FirstSession, TrippedSession}
    ELSE {FirstSession}

\* the live objects as constructed in a session: LiveTrader.__init__ ends
\* with _load_state()
LiveStart(session) ==
    /\ today = 1
    /\ usdt = session.usdt
    /\ events = 0
    /\ trader = LoadState(NewTrader, session.file)
    /\ state_file = session.file
    /\ risk_manager = NewRiskManager
    /\ order_manager = NewOrderManager
    /\ live_engine = NewLiveEngine
    /\ seen_today = FALSE
    /\ closed_today = 0
    /\ orders = << >>
    /\ last_event = "none"

\* one of the two live programs is started on a funded account
LiveInit ==
    /\ BacktesterInit({DefaultParams})
    /\ engine \in {"polling", "stream"}
    /\ \E session \in Sessions : LiveStart(session)
    /\ RiskOff

\* the UTC date changes
Midnight ==
    /\ engine # "none"
    /\ today < MaxDays
    /\ today' = today + 1
    /\ seen_today' = FALSE
    /\ closed_today' = 0
    /\ UNCHANGED << engine, usdt, events, trader, state_file, risk_manager,
                    order_manager, live_engine, orders, last_event >>
    /\ UNCHANGED << btvars, riskvars, sweepvars, lotvars, candlevars >>

\* LiveTrader.__init__ in a new process (or a new dashboard session):
\* _load_state() reads the state file the last _save_state() left
Restart ==
    /\ engine = "polling"
    /\ last_event # "restart"
    /\ trader' = LoadState(NewTrader, state_file)
    /\ orders' = << >>
    /\ last_event' = "restart"
    /\ UNCHANGED << engine, today, usdt, events, state_file, risk_manager,
                    order_manager, live_engine, seen_today, closed_today >>
    /\ UNCHANGED << btvars, riskvars, sweepvars, lotvars, candlevars >>

\* the dashboard's reset button (app.py:936-941): reset_state, and the
\* trader is taken out of the session, so that no button reaches it until
\* the connect button has made a new one
LtReset ==
    /\ engine = "polling"
    /\ last_event \notin {"none", "reset"}
    /\ trader' = ResetState(trader)
    /\ state_file' = << >>
    /\ orders' = << >>
    /\ last_event' = "reset"
    /\ UNCHANGED << engine, today, usdt, events, risk_manager, order_manager,
                    live_engine, seen_today, closed_today >>
    /\ UNCHANGED << btvars, riskvars, sweepvars, lotvars, candlevars >>

\* LiveTrader.connect
LtConnect ==
    /\ engine = "polling"
    /\ last_event # "reset"
    /\ ~trader.connected
    /\ trader' = [trader EXCEPT !.connected = TRUE,
                                !.initial_equity = IF @ = 0 THEN usdt ELSE @,
                                !.current_equity = usdt,
                                !.peak_equity = Max(@, usdt)]
    /\ UNCHANGED << engine, today, usdt, events, state_file, risk_manager,
                    order_manager, live_engine, seen_today, closed_today,
                    orders, last_event >>
    /\ UNCHANGED << btvars, riskvars, sweepvars, lotvars, candlevars >>

\* how the two venue reads of tick() end: both return, get_symbol_ticker
\* raises, or the get_account of _calculate_equity raises
VenueReads == {"ok", "no_price", "no_balance"}

\* LiveTrader.tick; when a venue read raises, the except branch of lines
\* 162-164 returns the status with what was assigned before it (the daily
\* roll, and last_price if the ticker had answered) and nothing is saved
LtTickStep ==
    /\ engine = "polling"
    /\ last_event # "reset"
    /\ trader.connected
    /\ events < MaxEvents
    /\ \E price \in LivePrices, reads \in VenueReads :
         IF reads = "ok"
         THEN \E signal \in {0, 1} :
              \E buy_outcome \in AnswersIf(signal = 1),
                 sell_outcome \in AnswersIf(trader.positions # << >>) :
                LET rolled == LtUpdateDailyTracking(trader, today)
                    eq == LtCalculateEquity(usdt, rolled.positions, price)
                    marked == LtCheckCircuitBreaker(
                                 [rolled EXCEPT !.last_price = price,
                                                !.current_equity = eq,
                                                !.peak_equity = Max(@, eq)])
                    exited == LtCheckTpSlLoop(marked.positions,
                                 [t |-> marked, usdt |-> usdt, realised |-> 0,
                                  orders |-> << >>],
                                 << >>, sell_outcome)
                    entered == IF /\ signal = 1
                                  /\ LtCanTrade(exited.t.circuit_breaker,
                                                Len(exited.t.positions),
                                                exited.t.current_equity,
                                                exited.t.daily_pnl)
                               THEN LtOpenPosition(exited, buy_outcome)
                               ELSE exited
                IN /\ trader' = entered.t
                   /\ usdt' = entered.usdt
                   /\ state_file' = SavedState(entered.t)
                   /\ closed_today' = closed_today + entered.realised
                   /\ orders' = entered.orders
         ELSE LET rolled == LtUpdateDailyTracking(trader, today)
              IN /\ trader' = IF reads = "no_balance"
                              THEN [rolled EXCEPT !.last_price = price]
                              ELSE rolled
                 /\ orders' = << >>
                 /\ UNCHANGED << usdt, state_file, closed_today >>
    /\ events' = events + 1
    /\ seen_today' = TRUE
    /\ last_event' = "tick"
    /\ UNCHANGED << engine, today, risk_manager, order_manager, live_engine >>
    /\ UNCHANGED << btvars, riskvars, sweepvars, lotvars >>

LtTick == LtTickStep /\ UNCHANGED candlevars

\* LiveTrader.close_all (the dashboard's button)
LtCloseAll ==
    /\ engine = "polling"
    /\ last_event # "reset"
    /\ trader.connected
    /\ events < MaxEvents
    /\ \E price \in LivePrices,
          sell_outcome \in AnswersIf(trader.positions # << >>) :
         IF trader.positions = << >>
         THEN /\ orders' = << >>
              /\ UNCHANGED << trader, usdt, state_file, closed_today >>
         ELSE LET closed == LtCloseAllLoop(trader.positions,
                               [t |-> trader, usdt |-> usdt, realised |-> 0,
                                orders |-> << >>],
                               price, sell_outcome)
              IN /\ trader' = closed.t
                 /\ usdt' = closed.usdt
                 /\ state_file' = SavedState(closed.t)
                 /\ closed_today' = closed_today + closed.realised
                 /\ orders' = closed.orders
    /\ events' = events + 1
    /\ seen_today' = TRUE
    /\ last_event' = "close_all"
    /\ UNCHANGED << engine, today, risk_manager, order_manager, live_engine >>
    /\ UNCHANGED << btvars, riskvars, sweepvars, lotvars, candlevars >>

\* LiveTradingEngine.start, lines 74-84: when get_account_balance raises
\* after its last attempt, start() ends with that exception before the
\* stream is subscribed
EngStart ==
    /\ engine = "stream"
    /\ live_engine.running = "created"
    /\ \E balance_outcome \in BalanceOutcomes :
         LET result == GetAccountBalance(balance_outcome, 1)
         IN /\ orders' = << OrderEntry("BALANCE", 0, 0, balance_outcome,
                                     result) >>
            /\ IF result.filled
               THEN /\ risk_manager' = RmUpdateEquity(risk_manager, usdt)
                    /\ live_engine' = [live_engine EXCEPT !.running = "running"]
               ELSE /\ live_engine' = [live_engine EXCEPT !.running = "failed"]
                    /\ UNCHANGED risk_manager
    /\ last_event' = "start"
    /\ UNCHANGED << engine, today, usdt, events, trader, state_file,
                    order_manager, seen_today, closed_today >>
    /\ UNCHANGED << btvars, riskvars, sweepvars, lotvars, candlevars >>

\* (mutant) the handler does not look at is_closed
OnKlinePath_EveryUpdate(is_closed, buffer) ==
    LET buffered == Min(buffer + 1, MIN_CANDLES)
    IN [candle_buffer |-> buffered, evaluated |-> buffered >= MIN_CANDLES]

\* how far _on_kline goes after check_tp_sl: an update of a candle that is
\* not closed returns at main.py:111-112; a closed candle is appended to
\* the buffer (114-122) and the signal is computed (132-155) once the
\* buffer holds MIN_CANDLES candles (125-129)
OnKlinePath(is_closed, buffer) ==
    IF ~is_closed
    THEN [candle_buffer |-> buffer, evaluated |-> FALSE]
    ELSE LET buffered == Min(buffer + 1, MIN_CANDLES)
         IN [candle_buffer |-> buffered, evaluated |-> buffered >= MIN_CANDLES]

\* LiveTradingEngine._on_kline: a kline update of the stream; last_kline
\* keeps is_closed of the update and whether its signal was computed
OnKline ==
    /\ engine = "stream"
    /\ live_engine.running = "running"
    /\ events < MaxEvents
    /\ \E price \in LivePrices, is_closed \in BOOLEAN :
       LET path == OnKlinePath(is_closed, live_engine.candle_buffer)
       IN
       \E signal \in (IF path.evaluated THEN {0, 1} ELSE {0}) :
       \E buy_outcome \in AnswersIf(path.evaluated /\ signal = 1),
          sell_outcome \in AnswersIf(order_manager.positions # << >>) :
         LET checked == OmCloseLoop(1,
                           [rm |-> risk_manager, om |-> order_manager,
                            usdt |-> usdt, realised |-> 0, orders |-> << >>],
                           price, sell_outcome, FALSE)
             entered == IF path.evaluated /\ signal = 1
                        THEN OmOpenPosition(checked, price, today, buy_outcome)
                        ELSE checked
         IN /\ risk_manager' = entered.rm
            /\ order_manager' = entered.om
            /\ usdt' = entered.usdt
            /\ closed_today' = closed_today + entered.realised
            /\ orders' = entered.orders
            /\ live_engine' = [live_engine EXCEPT
                    !.candle_buffer = path.candle_buffer,
                    !.last_kline = [is_closed |-> is_closed,
                                    evaluated |-> path.evaluated]]
    /\ events' = IF live_engine.candle_buffer < MIN_CANDLES THEN events ELSE events + 1
    /\ seen_today' = TRUE
    /\ last_event' = "kline"
    /\ UNCHANGED << engine, today, trader, state_file >>
    /\ UNCHANGED << btvars, riskvars, sweepvars, lotvars, candlevars >>

\* LiveTradingEngine._shutdown: start() runs it when the stream ends
\* (main.py:97-98), and run_live_trading runs it once more when start()
\* ended by a KeyboardInterrupt (main.py:264-268).  close_all_positions is
\* called with the price get_current_price returned; when that call raises
\* (ticker_ok false) the except branch of lines 197-198 logs it and nothing
\* is closed.  stop_steps is what the stop did, in order: _shutdown runs in
\* the finally of start(), so the loop of subscribe_kline has ended and its
\* "async with ts" has closed the kline socket (execution.py:205-232) before
\* _shutdown starts; connector.disconnect() is the last call (main.py:201).
StopSteps(first, ticker_ok) ==
    (IF first THEN << "unsubscribe" >> ELSE << >>)
    \o << IF ticker_ok THEN "close_all_positions" ELSE "get_current_price_failed" >>
    \o << "disconnect" >>

Shutdown ==
    /\ engine = "stream"
    /\ \/ live_engine.running = "running"
       \/ /\ live_engine.running = "stopped"
          /\ last_event \in {"shutdown", "shutdown_no_price"}
    /\ \E ticker_ok \in BOOLEAN :
         /\ IF ticker_ok
            THEN /\ \E price \in LivePrices,
                       sell_outcome \in AnswersIf(order_manager.positions # << >>) :
                      LET closed == OmCloseLoop(1,
                                       [rm |-> risk_manager, om |-> order_manager,
                                        usdt |-> usdt, realised |-> 0,
                                        orders |-> << >>],
                                       price, sell_outcome, TRUE)
                      IN /\ risk_manager' = closed.rm
                         /\ order_manager' = closed.om
                         /\ usdt' = closed.usdt
                         /\ closed_today' = closed_today + closed.realised
                         /\ orders' = closed.orders
                 /\ last_event' = IF live_engine.running = "running"
                                  THEN "shutdown" ELSE "shutdown_again"
            ELSE /\ orders' = << >>
                 /\ last_event' = IF live_engine.running = "running"
                                  THEN "shutdown_no_price"
                                  ELSE "shutdown_again_no_price"
                 /\ UNCHANGED << risk_manager, order_manager, usdt, closed_today >>
         /\ live_engine' = [live_engine EXCEPT
                 !.running = "stopped",
                 !.stop_steps = StopSteps(live_engine.running = "running",
                                          ticker_ok)]
    /\ seen_today' = TRUE
    /\ UNCHANGED << engine, today, events, trader, state_file >>
    /\ UNCHANGED << btvars, riskvars, sweepvars, lotvars, candlevars >>

LiveNext ==
    \/ Midnight
    \/ Restart
    \/ LtReset
    \/ LtConnect
    \/ LtTick
    \/ LtCloseAll
    \/ EngStart
    \/ OnKline
    \/ Shutdown

LiveSpec == LiveInit /\ [][LiveNext]_vars

\* ========================================================================
\* The three admission and sizing rules on one risk state
\* ========================================================================
DailyPnls == {0, -250 * Unit, -290 * Unit, -400 * Unit}
Equities == {9000 * Unit, 10000 * Unit}
Cashes == {5000 * Unit, 9000 * Unit, 10000 * Unit}
StopPcts == {SL_PCT, 500}

\* breaker flag, open count, daily P&L, equity, the equity the day started
\* with (RiskManager keeps it), cash, the price and the stop distance
RiskStates ==
    { rs \in [ active : BOOLEAN, open_count : 0 .. MAX_OPEN_TRADES,
               daily_pnl : DailyPnls, equity : Equities,
               start_equity : Equities, cash : Cashes,
               price : PriceLevels, sl_pct : StopPcts ] :
        rs.cash <= rs.equity }

\* Backtester._try_open_position on the risk state
BacktesterDecision(rs) ==
    LET p == [DefaultParams EXCEPT !.sl_pct = rs.sl_pct]
        admit == CanOpenTrade(rs.active, rs.open_count, rs.equity, rs.daily_pnl, p)
        pos == SizedPosition(rs.cash, rs.equity, [NoRow EXCEPT !.close = rs.price], p)
    IN [made |-> TRUE, admit |-> admit,
        quantity |-> IF admit THEN pos.quantity ELSE 0]

\* LiveTrader.tick, lines 156-157, on the risk state: _can_trade and the
\* quantity _open_position asks for (before the lot rounding)
LiveTraderDecision(rs) ==
    LET admit == LtCanTrade(rs.active, rs.open_count, rs.equity, rs.daily_pnl)
    IN [made |-> TRUE, admit |-> admit,
        quantity |-> IF admit THEN LtSizeByRisk(rs.equity, rs.price, rs.sl_pct) ELSE 0]

\* OrderManager.open_position, lines 74-86, on the risk state: can_trade and
\* calculate_position_size (before the lot rounding); the daily window is
\* of the current date
RiskManagerDecision(rs) ==
    LET rm == [ current_equity         |-> rs.equity,
                peak_equity            |-> rs.equity,
                open_trade_count       |-> rs.open_count,
                circuit_breaker_active |-> rs.active,
                daily_pnl              |-> rs.daily_pnl,
                current_date           |-> 1,
                daily_start_equity     |-> rs.start_equity ]
        admit == RmCanTrade(rm, 1)
        slippage_price == MulDiv(rs.price, BP + SLIPPAGE, BP)
        sl_price == MulDiv(slippage_price, BP - rs.sl_pct, BP)
    IN [made |-> TRUE, admit |-> admit,
        quantity |-> IF admit
                     THEN RmCalculatePositionSize(rs.equity, slippage_price, sl_price)
                     ELSE 0]

RiskInit ==
    /\ BacktesterInit({DefaultParams})
    /\ LiveOff
    /\ risk_state \in RiskStates
    /\ decisions = [bt |-> NoDecision, lt |-> NoDecision, rm |-> NoDecision]
    /\ SizingOff
    /\ SweepOff
    /\ LotOff
    /\ CandleOff

BacktesterDecides ==
    /\ ~decisions.bt.made
    /\ risk_state # NoRiskState
    /\ decisions' = [decisions EXCEPT !.bt = BacktesterDecision(risk_state)]
    /\ UNCHANGED << risk_state, size_args, sizes, btvars, livevars, sweepvars, lotvars, candlevars >>

LiveTraderDecides ==
    /\ ~decisions.lt.made
    /\ risk_state # NoRiskState
    /\ decisions' = [decisions EXCEPT !.lt = LiveTraderDecision(risk_state)]
    /\ UNCHANGED << risk_state, size_args, sizes, btvars, livevars, sweepvars, lotvars, candlevars >>

RiskManagerDecides ==
    /\ ~decisions.rm.made
    /\ risk_state # NoRiskState
    /\ decisions' = [decisions EXCEPT !.rm = RiskManagerDecision(risk_state)]
    /\ UNCHANGED << risk_state, size_args, sizes, btvars, livevars, sweepvars, lotvars, candlevars >>

RiskNext ==
    \/ BacktesterDecides
    \/ LiveTraderDecides
    \/ RiskManagerDecides

RiskSpec == RiskInit /\ [][RiskNext]_vars

\* ========================================================================
\* Position sizing on one (equity, entry_price, sl_price)
\* ========================================================================
SizeEquities == {0, 9000 * Unit, 10000 * Unit}
SizePrices == {98, 99, 100, 101}

SizeArgs ==
    [equity : SizeEquities, entry_price : SizePrices, sl_price : SizePrices]

\* Backtester._try_open_position, lines 227-233, on the arguments: the
\* quantity before the clamp to cash of lines 240-247
BacktesterSize(a) ==
    SizeByRisk(a.equity, a.entry_price, a.sl_price, DefaultParams)

\* RiskManager.calculate_position_size on the arguments, current_equity
\* being a.equity
RiskManagerSize(a) ==
    RmCalculatePositionSize(a.equity, a.entry_price, a.sl_price)

SizeInit ==
    /\ BacktesterInit({DefaultParams})
    /\ LiveOff
    /\ risk_state = NoRiskState
    /\ decisions = [bt |-> NoDecision, lt |-> NoDecision, rm |-> NoDecision]
    /\ size_args \in SizeArgs
    /\ sizes = [bt |-> NoSize, rm |-> NoSize]
    /\ SweepOff
    /\ LotOff
    /\ CandleOff

BacktesterSizes ==
    /\ ~sizes.bt.made
    /\ size_args # NoSizeArgs
    /\ sizes' = [sizes EXCEPT !.bt = [made |-> TRUE,
                                      quantity |-> BacktesterSize(size_args)]]
    /\ UNCHANGED << size_args, risk_state, decisions, btvars, livevars, sweepvars, lotvars, candlevars >>

RiskManagerSizes ==
    /\ ~sizes.rm.made
    /\ size_args # NoSizeArgs
    /\ sizes' = [sizes EXCEPT !.rm = [made |-> TRUE,
                                      quantity |-> RiskManagerSize(size_args)]]
    /\ UNCHANGED << size_args, risk_state, decisions, btvars, livevars, sweepvars, lotvars, candlevars >>

SizeNext ==
    \/ BacktesterSizes
    \/ RiskManagerSizes

SizeSpec == SizeInit /\ [][SizeNext]_vars

\* ---- C11 ---------------------------------------------------------------
\* the quantity of the sizing rule: equity * risk_per_trade divided by
\* entry_price - sl_price, and 0 when that distance is not positive
RuleQuantity(a) ==
    IF a.entry_price - a.sl_price <= 0 THEN 0
    ELSE MulDiv(a.equity, RISK_PER_TRADE, BP) \div (a.entry_price - a.sl_price)

\* the largest quantity RiskManager lets through: 95% of the equity
RmCeiling(a) == MulDiv(a.equity, 9500, BP) \div a.entry_price

\* C11: position sizing returns equity * risk_per_trade /
\* (entry_price - sl_price) before any clamp to the available capital
\* (Backtester: the value before the clamp to cash; RiskManager: the value
\* returned unless its own ceiling of 95% of the equity applies), and 0 for
\* every input with entry_price - sl_price <= 0, sl_price > entry_price
\* included.
C11_SizingRule ==
    /\ sizes.bt.made => sizes.bt.quantity = RuleQuantity(size_args)
    /\ sizes.rm.made =>
          \/ sizes.rm.quantity = RuleQuantity(size_args)
          \/ /\ size_args.entry_price - size_args.sl_price > 0
             /\ RuleQuantity(size_args) > RmCeiling(size_args)
             /\ sizes.rm.quantity = RmCeiling(size_args)

\* ========================================================================
\* Claims about the live programs
\* ========================================================================
\* the daily P&L an admission check made now would use: the stored one if
\* the stored date is the current date, 0 after the roll otherwise
DailyPnlAtCheck ==
    IF engine = "polling"
    THEN IF trader.daily_date = today THEN trader.daily_pnl ELSE 0
    ELSE IF risk_manager.current_date = today THEN risk_manager.daily_pnl ELSE 0

\* ---- C8 ----------------------------------------------------------------
\* C8: in the live programs the daily window follows the UTC date of the
\* events, so that once an event of the current date has been handled the
\* daily P&L an admission check would use is the net P&L of the positions
\* closed on the current date.
C8_DailyPnlCountsTheDay == seen_today => DailyPnlAtCheck = closed_today

\* ---- C10 ---------------------------------------------------------------
\* C10: on one risk state (RiskManager's day having started with the same
\* equity) and the same entry and stop prices, Backtester, LiveTrader and
\* RiskManager/OrderManager take the same admit/reject decision and size
\* the same quantity.
C10_SameDecision ==
    (/\ decisions.bt.made /\ decisions.lt.made /\ decisions.rm.made
     /\ risk_state.start_equity = risk_state.equity)
    => (decisions.bt = decisions.lt /\ decisions.lt = decisions.rm)

\* ---- C17 ---------------------------------------------------------------
\* what a new LiveTrader holds once it has loaded the state this one would
\* save now
Reloaded == LoadState(NewTrader, SavedState(trader))

OpenPositions ==
    IF engine = "polling"
    THEN trader.positions
    ELSE SelectSeq(order_manager.positions, LAMBDA q : q.status = "OPEN")

\* the records of closed positions: LiveTrader.trade_history, and the
\* positions OrderManager has marked CLOSED
ClosedRecords ==
    IF engine = "polling"
    THEN trader.trade_history
    ELSE SelectSeq(order_manager.positions, LAMBDA q : q.status = "CLOSED")

\* a step that is a second close-all directly after a close-all:
\* LiveTrader.close_all after close_all, or the close_all_positions of a
\* second _shutdown after that of the first
SecondCloseAll ==
    \/ /\ engine = "polling"
       /\ last_event = "close_all"
       /\ last_event' = "close_all"
       /\ events' = events + 1
    \/ /\ engine = "stream"
       /\ last_event = "shutdown"
       /\ last_event' = "shutdown_again"

\* every order of the last event was filled
LastOrdersFilled == \A k \in DOMAIN orders : orders[k].filled

\* C18 as claimed: a second close-all directly after a close-all places no
\* order, adds no closed-trade record and leaves no open position.
C18_CloseAllTwiceAsClaimed ==
    [][ SecondCloseAll
        => /\ orders' = << >>
           /\ ClosedRecords' = ClosedRecords
           /\ OpenPositions' = << >> ]_vars

\* C18 (amended): a second close-all directly after a close-all places no
\* order, adds no closed-trade record and leaves no open position, provided
\* that in the stream engine every SELL order of the first one was filled;
\* LiveTrader.close_all empties its list whatever the venue answered.  In
\* the stream engine a position whose SELL failed is still open and the
\* second close_all_positions places one SELL order for each such
\* position and for no other.
C18_CloseAllTwice ==
    [][ SecondCloseAll
        => /\ (engine = "polling" \/ LastOrdersFilled)
              => /\ orders' = << >>
                 /\ ClosedRecords' = ClosedRecords
                 /\ OpenPositions' = << >>
           /\ Len(orders') = Len(OpenPositions)
           /\ \A k \in DOMAIN orders' :
                 /\ orders'[k].side = "SELL"
                 /\ orders'[k].id = OpenPositions[k].position_id
           /\ Len(ClosedRecords') + Len(OpenPositions')
                = Len(ClosedRecords) + Len(OpenPositions) ]_vars

\* the stream engine after a second close_all_positions that found every
\* position already closed
C18_Witness ==
    /\ engine = "stream"
    /\ last_event = "shutdown_again"
    /\ orders = << >>
    /\ ClosedRecords # << >>
    /\ OpenPositions = << >>

\* ---- C19 ---------------------------------------------------------------
\* the id of a position of the running program
PositionId(q) == IF engine = "polling" THEN q.id ELSE q.position_id

\* the position with this id is open, and (LiveTrader) in the state file
StillOpen(id) ==
    /\ \E j \in DOMAIN OpenPositions : PositionId(OpenPositions[j]) = id
    /\ engine = "polling"
         => /\ state_file # << >>
            /\ \E j \in DOMAIN state_file[1].positions :
                  state_file[1].positions[j].id = id

\* C19: a position whose SELL order failed in the event just handled (a
\* take-profit, a stop-loss or a close-all; rejected or retries exhausted)
\* is still among the open positions, and in the persisted state, after
\* the event.
C19_FailedSellKeepsPosition ==
    \A k \in DOMAIN orders :
       (orders[k].side = "SELL" /\ ~orders[k].filled) => StillOpen(orders[k].id)

\* ---- C20 ---------------------------------------------------------------
\* C20: an order the venue rejects permanently (code -2010, -1013 or -1111)
\* is attempted exactly once, BUY or SELL, in either live program.
C20_RejectionNotRetried ==
    \A k \in DOMAIN orders :
       orders[k].outcome = "reject"
          => orders[k].attempts = 1 /\ ~orders[k].filled

\* ---- C21 ---------------------------------------------------------------
\* the retry loops whose last transient error leaves the loop as an
\* exception: place_market_order, get_account_balance and the BUY loop of
\* LiveTrader._open_position (the SELL loop of LiveTrader._close_position
\* logs it and returns)
RaisesLastError(o) == engine = "stream" \/ o.side = "BUY"

BreakerActive ==
    IF engine = "polling"
    THEN trader.circuit_breaker
    ELSE risk_manager.circuit_breaker_active

C23_ResetClears ==
    [][ /\ last_event' = "reset"
           => /\ trader'.positions = << >>
              /\ trader'.daily_pnl = 0
              /\ ~trader'.circuit_breaker
              /\ trader'.peak_equity = 0
              /\ trader'.initial_equity = 0
              /\ state_file' = << >>
        /\ (last_event = "reset" /\ last_event' = "restart")
           => trader' = NewTrader ]_vars

\* a trader constructed after the reset of a session that had closed a
\* position and saved its state
C23_Witness ==
    /\ engine = "polling"
    /\ last_event = "restart"
    /\ events >= 2
    /\ closed_today # 0
    /\ state_file = << >>
    /\ trader = NewTrader

\* ---- C24 ---------------------------------------------------------------
\* C24: in every state of a live program the stored peak equity is at
\* least the stored current equity.
C24_PeakAtLeastEquity ==
    /\ engine = "polling" => trader.peak_equity >= trader.current_equity
    /\ engine = "stream"
         => risk_manager.peak_equity >= risk_manager.current_equity

\* ---- C25 ---------------------------------------------------------------
\* the date of the daily window the running program has stored
StoredDate ==
    IF engine = "polling" THEN trader.daily_date ELSE risk_manager.current_date

\* the fee the venue took for the position a filled BUY opened
FeeOfBuy(o) ==
    LET opened == SelectSeq(OpenPositions,
                            LAMBDA q : PositionId(q) = o.id /\ o.filled)
    IN IF opened = << >> THEN 0
       ELSE VenueFee(o.price, opened[1].quantity)

\* the equity marked to market at the price of a BUY order, before the
\* order: what tick() stored, and for the stream engine the venue balance
\* plus the open positions at that price
MarkedAtEntry(o) ==
    IF engine = "polling"
    THEN trader.current_equity
    ELSE PositionValue(OpenPositions, o.price) + usdt + FeeOfBuy(o)

\* the peak the breaker evaluation of that tick compares it with
PeakAtEntry(o) ==
    IF engine = "polling"
    THEN trader.peak_equity
    ELSE Max(risk_manager.peak_equity, MarkedAtEntry(o))

\* C25: a tick or kline rolls the daily window, marks the equity to
\* market, evaluates the breaker, checks the exits and then the entry:
\* after such an event the stored date is the current date, and a BUY
\* order was placed only if the drawdown of the equity marked at the price
\* of that tick is below circuit_breaker_dd.
C25_TickOrder ==
    /\ (last_event \in {"tick", "kline"} /\ seen_today) => StoredDate = today
    /\ \A k \in DOMAIN orders :
          orders[k].side = "BUY"
             => ~RatioAtLeast(PeakAtEntry(orders[k]) - MarkedAtEntry(orders[k]),
                              PeakAtEntry(orders[k]), CIRCUIT_BREAKER_DD)

\* ---- C26 ---------------------------------------------------------------
\* the open positions a new process would find persisted
PersistedPositions ==
    IF state_file = << >> THEN << >> ELSE state_file[1].positions

\* the state file holds what the trader holds
PersistedIsCurrent ==
    /\ state_file # << >>
    /\ state_file[1].positions = trader.positions
    /\ state_file[1].peak_equity = trader.peak_equity
    /\ state_file[1].daily_pnl = trader.daily_pnl
    /\ state_file[1].daily_date = trader.daily_date
    /\ state_file[1].circuit_breaker = trader.circuit_breaker

\* C26: after a tick, and after an event that placed an order, the
\* persisted state is the state in memory: LiveTrader's file holds its
\* positions, peak_equity, daily_pnl, daily_date and breaker flag, and the
\* positions the stream engine holds as open are persisted as well, so
\* that a new process finds exactly the open positions.
C26_PersistedAfterEvent ==
    /\ (engine = "polling" /\ (last_event = "tick" \/ orders # << >>))
          => PersistedIsCurrent
    /\ (engine = "stream" /\ last_event = "kline")
          => Len(PersistedPositions) = Len(OpenPositions)

\* ---- C27 ---------------------------------------------------------------
StopEvents ==
    {"shutdown", "shutdown_no_price", "shutdown_again", "shutdown_again_no_price"}

\* the place of a step in what the last stop did, 0 when it was not done
StepAt(step) ==
    LET at == { j \in 1 .. Len(live_engine.stop_steps) :
                  live_engine.stop_steps[j] = step }
    IN IF at = {} THEN 0 ELSE CHOOSE j \in at : TRUE

\* C27: a stop of the live engine places a SELL for every position that
\* was open when it came, and it does so before the kline subscription is
\* torn down and before the venue connection is released.
C27_FlattenBeforeTeardown ==
    [][ last_event' \in StopEvents =>
          /\ \A k \in 1 .. Len(OpenPositions) :
                \E j \in 1 .. Len(orders') :
                  /\ orders'[j].side = "SELL"
                  /\ orders'[j].id = OpenPositions[k].position_id
          /\ LET closing == StepAt("close_all_positions")'
                 unsub == StepAt("unsubscribe")'
                 release == StepAt("disconnect")'
             IN /\ closing > 0
                /\ unsub > 0 => closing < unsub
                /\ release > 0 => closing < release ]_vars

\* ---- C28 ---------------------------------------------------------------
\* the step is one call of LiveTradingEngine._on_kline
KlineHandled ==
    /\ engine = "stream"
    /\ live_engine.running = "running"
    /\ live_engine'.running = "running"
    /\ last_event' = "kline"
    /\ today' = today

PositionInit ==
    /\ BacktesterInit({DefaultParams})
    /\ \/ LiveOff
       \/ /\ engine \in {"polling", "stream"}
          /\ LiveStart(FirstSession)
    /\ RiskOff

\* a step of Backtester.run, when no live program was started
BacktestStep == engine = "none" /\ Next

PositionNext ==
    \/ BacktestStep
    \/ LiveNext

PositionSpec == PositionInit /\ [][PositionNext]_vars

\* ---- C30 ---------------------------------------------------------------
\* the open positions of the program that runs
Held ==
    IF engine = "none" THEN positions ELSE OpenPositions

\* the step adds a position: _try_open_position appended one, or a BUY
\* order of this tick was filled
Added ==
    IF engine = "none"
    THEN pc = "entry" /\ Len(positions') = Len(positions) + 1
    ELSE /\ last_event' \in {"tick", "kline"}
         /\ \E j \in 1 .. Len(orders') :
              /\ orders'[j].side = "BUY"
              /\ orders'[j].filled
              /\ orders'[j].price = Held'[Len(Held')].entry_price

\* C30: every open position, of the Backtester and of the two live
\* programs, has tp_price > entry_price > sl_price for as long as it is
\* open, and a position that is open after a step is, with the same
\* entry_price, quantity, tp_price and sl_price, a position that was open
\* before it, unless it is the one the step added (in live mode at the
\* price the BUY order was filled at).
C30_PositionLevelsFixed ==
    [][ \A k \in 1 .. Len(Held') :
          /\ Held'[k].tp_price > Held'[k].entry_price
          /\ Held'[k].entry_price > Held'[k].sl_price
          /\ \/ \E h \in 1 .. Len(Held) : Held[h] = Held'[k]
             \/ k = Len(Held') /\ Added ]_vars

\* a LiveTrader holds, after a restart, a position it opened at a fill and
\* carried over a tick that placed no order
C30_Witness ==
    /\ engine = "polling"
    /\ last_event = "restart"
    /\ events >= 2
    /\ Len(Held) = 1
    /\ Held[1].quantity > 0
    /\ Held[1].tp_price > Held[1].entry_price

\* ========================================================================
\* The parameter sweep: run_grid_search and its workers
\* ========================================================================
\* the OHLC rows of base_df: a falling and a rising candle
SweepCandles ==
    { [low |-> 9400, high |-> 9750, close |-> 9400],
      [low |-> 9750, high |-> 10500, close |-> 10500] }

\* the rows of a frame, two candles a day
SweepLen == MaxCandles - 1

BaseFrames ==
    { [k \in 1 .. SweepLen |->
         [timestamp |-> k, date |-> 1 + (k - 1) \div 2,
          low |-> f[k].low, high |-> f[k].high, close |-> f[k].close]] :
      f \in [1 .. SweepLen -> SweepCandles] }

\* the ranges handed to run_grid_search: EMA windows short enough for the
\* frames, two take-profit fractions and one stop-loss fraction
SweepEmaFast == {1, 2}
SweepEmaSlow == {2, 3}
SweepTpValues == {20, 60}
SweepSlValues == {30}

\* all_combos filtered to valid_combos (lines 137-142)
ValidCombos ==
    { c \in [ema_fast : SweepEmaFast, ema_slow : SweepEmaSlow,
              tp_pct : SweepTpValues, sl_pct : SweepSlValues] :
        c.ema_fast < c.ema_slow }

\* EMAIndicator of the ta library on the close column of the first k rows:
\* ema = ema_prev + 2 / (window + 1) * (close - ema_prev)
RECURSIVE Ema(_, _, _)
Ema(df, k, window) ==
    IF k = 1 THEN df[1].close
    ELSE LET prev == Ema(df, k - 1, window)
         IN prev + (2 * (df[k].close - prev)) \div (window + 1)

\* generate_signals: the fast EMA crosses above the slow one; the signal of
\* the first row is cleared (strategy.py line 47)
SignalAt(df, k, combo) ==
    IF k = 1 THEN 0
    ELSE IF /\ Ema(df, k - 1, combo.ema_fast) <= Ema(df, k - 1, combo.ema_slow)
            /\ Ema(df, k, combo.ema_fast) > Ema(df, k, combo.ema_slow)
         THEN 1
         ELSE 0

\* _run_single_backtest, lines 41-55: the frame of one evaluation, computed
\* on base_df.copy()
EvaluationFrame(base_df, combo) ==
    [k \in 1 .. Len(base_df) |->
       [timestamp |-> base_df[k].timestamp, date |-> base_df[k].date,
        low |-> base_df[k].low, high |-> base_df[k].high,
        close |-> base_df[k].close, signal |-> SignalAt(base_df, k, combo)]]

\* _run_single_backtest, lines 58-68: the BacktestParams of a combination
ComboParams(combo) ==
    [DefaultParams EXCEPT !.tp_pct = combo.tp_pct, !.sl_pct = combo.sl_pct]

\* (mutant) the worker goes on with the Backtester of its last evaluation
WorkerBacktester_Reused(previous, p) ==
    IF previous.equity_curve = << >> THEN Reset(p) ELSE previous

\* _run_single_backtest, line 70: bt = Backtester(params), a new object
\* whatever the worker evaluated before
WorkerBacktester(previous, p) == Reset(p)

\* Backtester.run, lines 98-120: one row of the loop on a Backtester bt
RunRow(bt, r, p) ==
    LET d == UpdateDailyTracking(bt.current_date, bt.daily_pnl, r.date)
        st == CheckExitsLoop(1, bt.positions,
                 [trades |-> bt.trades, cash |-> bt.cash,
                  daily_pnl |-> d.daily_pnl, closed |-> {}], r, p)
        remaining == Remaining(1, bt.positions, st.closed)
        active == CheckCircuitBreaker(bt.circuit_breaker_active, bt.peak_equity,
                                      bt.equity, p)
        ok == /\ r.signal = 1
              /\ CanOpenTrade(active, Len(remaining), bt.equity, st.daily_pnl, p)
              /\ Opens(st.cash, bt.equity, r, p)
        pos == SizedPosition(st.cash, bt.equity, r, p)
        cash_after == IF ok THEN st.cash - TotalCost(pos.entry_price, pos.quantity, p)
                      ELSE st.cash
        held == IF ok THEN Append(remaining, pos) ELSE remaining
        eq == cash_after + PositionValue(held, r.close)
    IN [ cash                   |-> cash_after,
         equity                 |-> eq,
         peak_equity            |-> NewPeak(bt.peak_equity, eq),
         positions              |-> held,
         trades                 |-> st.trades,
         equity_curve           |-> Append(bt.equity_curve,
                                      [timestamp |-> r.timestamp, equity |-> eq]),
         circuit_breaker_active |-> active,
         current_date           |-> d.current_date,
         daily_pnl              |-> st.daily_pnl ]

\* _run_single_backtest, lines 71-87: the end of run() (the forced close,
\* lines 123-125) and the result dict from calculate_metrics
WorkerResult(combo, bt, df) ==
    LET p == ComboParams(combo)
        closed == IF df = << >> THEN [trades |-> bt.trades, cash |-> bt.cash]
                  ELSE CloseAllLoop(bt.positions,
                                    [trades |-> bt.trades, cash |-> bt.cash],
                                    df[Len(df)], p)
        final_equity == IF bt.equity_curve = << >> THEN p.initial_capital
                        ELSE bt.equity_curve[Len(bt.equity_curve)].equity
    IN [ combo     |-> combo,
         so_lenh   |-> Len(closed.trades),
         loi_nhuan |-> IF closed.trades = << >> THEN 0
                       ELSE final_equity - p.initial_capital ]

\* a worker process of the pool (or the calling process, when the sweep
\* runs sequentially) before its first evaluation
IdleWorker ==
    [busy |-> FALSE, combo |-> CHOOSE c \in ValidCombos : TRUE, done |-> 0,
     bt |-> Reset(DefaultParams)]

\* run_grid_search, lines 160-188: base_df, the combinations, one process
\* (sequential) or a pool of two
SweepInit ==
    /\ BacktesterInit({DefaultParams})
    /\ LiveOff
    /\ risk_state = NoRiskState
    /\ decisions = [bt |-> NoDecision, lt |-> NoDecision, rm |-> NoDecision]
    /\ SizingOff
    /\ LotOff
    /\ CandleOff
    /\ \E base_df \in BaseFrames, n_workers \in {1, 2},
          todo \in { {c} : c \in ValidCombos } \cup {ValidCombos} :
         sweep = [base_df |-> base_df, todo |-> todo,
                  workers |-> [w \in 1 .. n_workers |-> IdleWorker],
                  results |-> {}]

\* a worker takes a combination and constructs its Backtester
Evaluate(w) ==
    /\ ~sweep.workers[w].busy
    /\ \E combo \in sweep.todo :
         sweep' = [sweep EXCEPT
                     !.todo = @ \ {combo},
                     !.workers[w] =
                        [busy |-> TRUE, combo |-> combo, done |-> 0,
                         bt |-> WorkerBacktester(@.bt, ComboParams(combo))]]
    /\ UNCHANGED << btvars, livevars, riskvars, lotvars, candlevars >>

\* the worker's Backtester processes the next row of its frame
WorkerRow(w) ==
    /\ sweep.workers[w].busy
    /\ sweep.workers[w].done < Len(sweep.base_df)
    /\ LET it == sweep.workers[w]
           df == EvaluationFrame(sweep.base_df, it.combo)
       IN sweep' = [sweep EXCEPT
                      !.workers[w].done = @ + 1,
                      !.workers[w].bt = RunRow(@, df[it.done + 1],
                                               ComboParams(it.combo))]
    /\ UNCHANGED << btvars, livevars, riskvars, lotvars, candlevars >>

\* the evaluation returns its result dict to run_grid_search
WorkerReturns(w) ==
    /\ sweep.workers[w].busy
    /\ sweep.workers[w].done = Len(sweep.base_df)
    /\ LET it == sweep.workers[w]
           df == EvaluationFrame(sweep.base_df, it.combo)
       IN sweep' = [sweep EXCEPT
                      !.workers[w].busy = FALSE,
                      !.results = @ \cup {WorkerResult(it.combo, it.bt, df)}]
    /\ UNCHANGED << btvars, livevars, riskvars, lotvars, candlevars >>

SweepNext ==
    \E w \in 1 .. Len(sweep.workers) :
       \/ Evaluate(w)
       \/ WorkerRow(w)
       \/ WorkerReturns(w)

SweepSpec == SweepInit /\ [][SweepNext]_vars

\* ---- C31 ---------------------------------------------------------------
\* the Backtester of an evaluation run on its own, after its first k rows
RECURSIVE AloneAfter(_, _, _)
AloneAfter(df, k, p) ==
    IF k = 0 THEN Reset(p) ELSE RunRow(AloneAfter(df, k - 1, p), df[k], p)

\* the result of a combination evaluated on its own
AloneResult(base_df, combo) ==
    LET df == EvaluationFrame(base_df, combo)
    IN WorkerResult(combo, AloneAfter(df, Len(df), ComboParams(combo)), df)

BreakerPeaks == {0, INITIAL_CAPITAL, 102312072}

\* equities around the drawdown threshold of each peak, and beyond
BreakerEquities ==
    {0, 89999999, 90000000, 90000001, 92080864, 92080865, INITIAL_CAPITAL,
     102312072}

\* the flag, the peak and the equity the check finds; the equity is above
\* the peak only when the peak was cleared
BreakerCases ==
    { c \in [active : BOOLEAN, peak : BreakerPeaks, equity : BreakerEquities] :
        c.peak = 0 \/ c.equity <= c.peak }

\* a Backtester whose run() stands before line 109 with this ledger
BacktesterAt(c) ==
    /\ params = DefaultParams
    /\ cash = c.equity
    /\ equity = c.equity
    /\ peak_equity = c.peak
    /\ positions = << >>
    /\ trades = << >>
    /\ equity_curve = << >>
    /\ circuit_breaker_active = c.active
    /\ current_date = 1
    /\ daily_pnl = 0
    /\ pc = "breaker"
    /\ i = 0
    /\ row = NoRow
    /\ last = NoRow
    /\ can_open = "none"
    /\ cap_hit = FALSE
    /\ cap_hit_prev = FALSE
    /\ reset_of = NoReset

\* a connected LiveTrader and a RiskManager with this ledger
LiveAt(c) ==
    /\ today = 1
    /\ usdt = c.equity
    /\ events = 0
    /\ trader = [NewTrader EXCEPT !.connected = TRUE,
                                  !.initial_equity = INITIAL_CAPITAL,
                                  !.current_equity = c.equity,
                                  !.peak_equity = c.peak,
                                  !.daily_date = 1,
                                  !.circuit_breaker = c.active]
    /\ state_file = << >>
    /\ risk_manager = [NewRiskManager EXCEPT !.current_equity = c.equity,
                                             !.peak_equity = c.peak,
                                             !.circuit_breaker_active = c.active]
    /\ order_manager = NewOrderManager
    /\ live_engine = NewLiveEngine
    /\ seen_today = FALSE
    /\ closed_today = 0
    /\ orders = << >>
    /\ last_event = "none"

BreakerInit ==
    /\ engine \in {"none", "polling", "stream"}
    /\ \E c \in BreakerCases :
         IF engine = "none"
         THEN /\ BacktesterAt(c)
              /\ LiveAt([active |-> FALSE, peak |-> INITIAL_CAPITAL,
                         equity |-> INITIAL_CAPITAL])
         ELSE /\ BacktesterInit({DefaultParams})
              /\ LiveAt(c)
    /\ RiskOff

\* Backtester.run, line 109
BacktesterChecks == engine = "none" /\ CheckBreaker

\* LiveTrader._check_circuit_breaker
LiveTraderChecks ==
    /\ engine = "polling"
    /\ last_event = "none"
    /\ trader' = LtCheckCircuitBreaker(trader)
    /\ last_event' = "check_circuit_breaker"
    /\ UNCHANGED << engine, today, usdt, events, state_file, risk_manager,
                    order_manager, live_engine, seen_today, closed_today,
                    orders >>
    /\ UNCHANGED << btvars, riskvars, sweepvars, lotvars, candlevars >>

\* RiskManager._check_circuit_breaker
RiskManagerChecks ==
    /\ engine = "stream"
    /\ last_event = "none"
    /\ risk_manager' = RmCheckCircuitBreaker(risk_manager)
    /\ last_event' = "check_circuit_breaker"
    /\ UNCHANGED << engine, today, usdt, events, trader, state_file,
                    order_manager, live_engine, seen_today, closed_today,
                    orders >>
    /\ UNCHANGED << btvars, riskvars, sweepvars, lotvars, candlevars >>

BreakerNext ==
    \/ BacktesterChecks
    \/ LiveTraderChecks
    \/ RiskManagerChecks

BreakerSpec == BreakerInit /\ [][BreakerNext]_vars

\* ---- C32 ---------------------------------------------------------------
\* the flag after a check, by the rule: it stays as it is when there is no
\* positive peak, and else is set when the drawdown is at least a tenth
\* (CIRCUIT_BREAKER_DD) of the peak
FlagByRule(active, peak, eq) ==
    IF peak <= 0 THEN active
    ELSE active \/ (BP \div CIRCUIT_BREAKER_DD) * (peak - eq) >= peak

HaltedSession ==
    [ file |-> << [ positions       |-> << [ id          |-> 1,
                                             entry_price |-> 10500,
                                             quantity    |-> 1940,
                                             tp_price    |-> 10920,
                                             sl_price    |-> 9975 ] >>,
                    initial_equity  |-> INITIAL_CAPITAL,
                    peak_equity     |-> 102312072,
                    daily_pnl       |-> 0,
                    daily_date      |-> 1,
                    circuit_breaker |-> TRUE,
                    trade_count     |-> 0 ] >>,
      usdt |-> 59661702 ]

HaltInit ==
    /\ BacktesterInit({TightParams})
    /\ \/ LiveOff
       \/ /\ engine = "polling"
          /\ LiveStart(HaltedSession)
       \/ /\ engine = "stream"
          /\ LiveStart(FirstSession)
    /\ RiskOff

HaltNext ==
    \/ BacktestStep
    \/ LiveNext

HaltSpec == HaltInit /\ [][HaltNext]_vars

\* ---- C33 ---------------------------------------------------------------
\* the candle reaches a level of the simulated position
LevelReached(pos, r) == r.low <= pos.sl_price \/ r.high >= pos.tp_price

\* the positions of the Backtester whose level the candle reaches
ReachedNow == {k \in 1 .. Len(positions) : LevelReached(positions[k], row)}

\* a tick of LiveTrader that read price and balance: it marked the equity
\* of the positions it held to the price it read
TickMarked ==
    /\ engine = "polling"
    /\ last_event' = "tick"
    /\ events' = events + 1
    /\ trader'.last_price \in LivePrices
    /\ trader'.current_equity
          = LtCalculateEquity(usdt, trader.positions, trader'.last_price)

\* the step placed a SELL order for the position at the price
SellPlaced(id, price) ==
    \E j \in 1 .. Len(orders') :
       /\ orders'[j].side = "SELL"
       /\ orders'[j].id = id
       /\ orders'[j].price = price

InCandle == pc \in {"exits", "breaker", "entry", "equity"}

\* C34: on every candle the Backtester checks the exits, then the breaker,
\* then the entry, then marks the equity: trades are appended by the exit
\* check only, the breaker flag changes at the breaker check only, a
\* position is added at the entry only and the equity changes at the
\* mark-to-market only.  So a trade closed with reason TP or SL left on a
\* later candle than it entered, and the entry counts the positions left
\* after this candle's exits: with a signal, an inactive breaker, fewer
\* than max_open_trades positions left and the daily loss cap not reached,
\* the entry is admitted.
C34_CandleOrder ==
    [][ /\ pc = "exits" => pc' = "breaker"
        /\ pc = "breaker" => pc' = "entry"
        /\ pc = "entry" => pc' = "equity"
        /\ pc = "equity" => pc' = "loop"
        /\ (InCandle /\ trades' # trades) => pc = "exits"
        /\ (InCandle /\ circuit_breaker_active' # circuit_breaker_active)
              => pc = "breaker"
        /\ (InCandle /\ Len(positions') > Len(positions)) => pc = "entry"
        /\ (InCandle /\ pc # "exits") => Len(positions') >= Len(positions)
        /\ (InCandle /\ equity' # equity) => pc = "equity"
        /\ \A k \in 1 .. Len(trades') :
              trades'[k].side \in {"TP", "SL"}
                 => trades'[k].entry_time < trades'[k].exit_time
        /\ (/\ pc = "entry"
            /\ row.signal = 1
            /\ ~circuit_breaker_active
            /\ Len(positions) < params.max_open_trades
            /\ ~DailyLossReached(daily_pnl, equity, params))
              => /\ can_open' = "yes"
                 /\ Opens(cash, equity, row, params)
                       => Len(positions') = Len(positions) + 1
      ]_vars

\* every slot was taken before this candle, one position left at its
\* level on this candle and the entry of the same candle took the slot
C34_Witness ==
    /\ pc = "equity"
    /\ Len(positions) = params.max_open_trades
    /\ positions[Len(positions)].entry_time = row.timestamp
    /\ trades # << >>
    /\ trades[Len(trades)].exit_time = row.timestamp
    /\ trades[Len(trades)].side \in {"TP", "SL"}
    /\ \A k \in 1 .. Len(trades) - 1 : trades[k].exit_time < row.timestamp

\* ========================================================================
\* The quantity of a live order
\* ========================================================================
\* decimal places of a quantity in lots: Unit = 10^LotPlaces
LotPlaces == 4

\* LOT_SIZE.stepSize as the venue may report it: the string, the step in
\* lots and the digits after the decimal point of the string.  The venue's
\* exchange information pads the string to eight decimals.
StepSizes ==
    { [text |-> "0.001",      units |-> 10,  places |-> 3],
      [text |-> "0.00100000", units |-> 10,  places |-> 8],
      [text |-> "0.005",      units |-> 50,  places |-> 3],
      [text |-> "0.0001",     units |-> 1,   places |-> 4],
      [text |-> "0.01",       units |-> 100, places |-> 2] }

\* quantities asked for, in lots
RequestedQuantities == {0, 4, 9, 10, 49, 50, 55, 100, 1005, 2127}

RECURSIVE Pow10(_)
Pow10(n) == IF n = 0 THEN 1 ELSE 10 * Pow10(n - 1)

\* _adjust_quantity: Decimal(str(quantity)).quantize(Decimal(step),
\* rounding=ROUND_DOWN) cuts the quantity to the number of decimal places
\* the step string is written with
AdjustQuantityTo(step, quantity) ==
    IF step.places >= LotPlaces THEN quantity
    ELSE (quantity \div Pow10(LotPlaces - step.places))
            * Pow10(LotPlaces - step.places)

LotInit ==
    /\ BacktesterInit({DefaultParams})
    /\ LiveOff
    /\ risk_state = NoRiskState
    /\ decisions = [bt |-> NoDecision, lt |-> NoDecision, rm |-> NoDecision]
    /\ SizingOff
    /\ SweepOff
    /\ CandleOff
    /\ \E step \in StepSizes, requested \in RequestedQuantities :
         lot_order = [NoLotOrder EXCEPT !.step = step, !.requested = requested]

\* LiveTrader._open_position from the notional check on: nothing is sent
\* for a notional below the minimum or a quantity adjusted to 0; a filled
\* order makes a position of the adjusted quantity
LtOpensQuantity ==
    /\ lot_order.by = "none"
    /\ \E price \in LivePrices, filled \in BOOLEAN :
         LET quantity == AdjustQuantityTo(lot_order.step, lot_order.requested)
         IN lot_order' =
              IF lot_order.requested * price < MinNotional \/ quantity <= 0
              THEN [lot_order EXCEPT !.by = "LiveTrader._open_position"]
              ELSE [lot_order EXCEPT !.by = "LiveTrader._open_position",
                                     !.sent = << quantity >>,
                                     !.held = IF filled THEN quantity ELSE 0]
    /\ UNCHANGED << btvars, livevars, riskvars, sweepvars, candlevars >>

\* LiveTrader._close_position of a position of the requested quantity
LtClosesQuantity ==
    /\ lot_order.by = "none"
    /\ \E filled \in BOOLEAN :
         LET quantity == AdjustQuantityTo(lot_order.step, lot_order.requested)
         IN lot_order' =
              IF quantity <= 0
              THEN [lot_order EXCEPT !.by = "LiveTrader._close_position"]
              ELSE [lot_order EXCEPT !.by = "LiveTrader._close_position",
                                     !.sent = << quantity >>,
                                     !.sold = IF filled THEN quantity ELSE 0]
    /\ UNCHANGED << btvars, livevars, riskvars, sweepvars, candlevars >>

\* BinanceConnector.place_market_order, called by OrderManager to open
\* (side BUY) or to close (side SELL): ValueError before any order when the
\* adjusted quantity is 0
ConnectorPlacesQuantity ==
    /\ lot_order.by = "none"
    /\ \E side \in {"BUY", "SELL"}, filled \in BOOLEAN :
         LET quantity == AdjustQuantityTo(lot_order.step, lot_order.requested)
         IN lot_order' =
              IF quantity <= 0
              THEN [lot_order EXCEPT !.by = "BinanceConnector.place_market_order"]
              ELSE [lot_order EXCEPT !.by = "BinanceConnector.place_market_order",
                                     !.sent = << quantity >>,
                                     !.held = IF filled /\ side = "BUY"
                                              THEN quantity ELSE 0,
                                     !.sold = IF filled /\ side = "SELL"
                                              THEN quantity ELSE 0]
    /\ UNCHANGED << btvars, livevars, riskvars, sweepvars, candlevars >>

LotNext ==
    \/ LtOpensQuantity
    \/ LtClosesQuantity
    \/ ConnectorPlacesQuantity

LotSpec == LotInit /\ [][LotNext]_vars

\* ---- C35 ---------------------------------------------------------------
\* the requested quantity rounded down to a multiple of the venue's step
RoundedToStep ==
    IF lot_order.step.units = 0 THEN 0
    ELSE (lot_order.requested \div lot_order.step.units) * lot_order.step.units

\* C35: every quantity sent to the venue is at most the quantity asked
\* for and an exact multiple of the venue's lot step, and when the quantity
\* rounded down to the step is 0 no order is sent and no position is
\* created or closed.
C35_LotRounding ==
    /\ \A k \in 1 .. Len(lot_order.sent) :
          /\ lot_order.sent[k] <= lot_order.requested
          /\ lot_order.sent[k] % lot_order.step.units = 0
    /\ RoundedToStep = 0
          => /\ lot_order.sent = << >>
             /\ lot_order.held = 0
             /\ lot_order.sold = 0

\* ---- C36 ---------------------------------------------------------------
\* what the open positions cost: entry_price * quantity + entry_fee each
RECURSIVE CostOfOpen(_, _)
CostOfOpen(ps, k) ==
    IF k > Len(ps) THEN 0
    ELSE ps[k].entry_price * ps[k].quantity + ps[k].entry_fee
            + CostOfOpen(ps, k + 1)

\* the net P&L of the trade log
LoggedPnl == SumPnl(trades, DOMAIN trades)

\* C36: in every state of a Backtester, cash plus the cost of the open
\* positions (entry_price * quantity + entry_fee each) is initial_capital
\* plus the net P&L of the closed trades; when run() has returned, equity
\* is initial_capital plus the net P&L of the trade log.
C36_BookkeepingConserved ==
    /\ cash + CostOfOpen(positions, 1) = params.initial_capital + LoggedPnl
    /\ pc = "done" => equity = params.initial_capital + LoggedPnl

\* run() has returned with trades closed at a level and trades closed by
\* the close-all, at a profit and at a loss
C36_Witness ==
    /\ pc = "done"
    /\ Len(trades) >= 3
    /\ \E j \in DOMAIN trades : trades[j].side \in {"TP", "SL"}
    /\ \E j \in DOMAIN trades : trades[j].side = "CLOSE"
    /\ \E j \in DOMAIN trades : trades[j].pnl > 0
    /\ \E j \in DOMAIN trades : trades[j].pnl < 0
    /\ equity # params.initial_capital

\* ---- C37 ---------------------------------------------------------------
\* the positions admitted in this run, by the candle that admitted them:
\* those still open and those with a record in the trade log
AdmittedAt ==
    {positions[k].entry_time : k \in DOMAIN positions}
       \cup {trades[k].entry_time : k \in DOMAIN trades}

\* C37: during a run of the Backtester the trade log only grows at its
\* end (the records it held stay, in place and unchanged), no admitted
\* position disappears, and every admitted position is either open or has
\* exactly one record, also when several leave on the same candle; when
\* run() returns no position is open, so each has exactly one record.
C37_OneRecordEach ==
    [][ pc \notin {"constructed", "done"}
          => /\ Len(trades') >= Len(trades)
             /\ SubSeq(trades', 1, Len(trades)) = trades
             /\ AdmittedAt \subseteq AdmittedAt'
             /\ Len(positions') + Len(trades') = Cardinality(AdmittedAt')
             /\ \A k \in DOMAIN positions' :
                   \A j \in DOMAIN trades' :
                      positions'[k].entry_time # trades'[j].entry_time
             /\ pc' = "done" => positions' = << >>
      ]_vars

\* run() has returned after two positions left at their levels on the same
\* candle and a third was closed by the close-all
C37_Witness ==
    /\ pc = "done"
    /\ Len(trades) >= 3
    /\ trades[1].exit_time = trades[2].exit_time
    /\ trades[1].side \in {"TP", "SL"}
    /\ trades[2].side \in {"TP", "SL"}
    /\ trades[Len(trades)].side = "CLOSE"

\* ---- C38 ---------------------------------------------------------------
\* the ids of the positions of a list are pairwise different
DistinctIds(ids) ==
    \A j, k \in DOMAIN ids : j # k => ids[j] # ids[k]

\* C38: in the live programs no two positions that are open at the same
\* time share an id, and no open position has the id of a closed-trade
\* record (a record is of a position that is no longer open).
C38_UniqueIds ==
    /\ engine = "polling"
          => /\ DistinctIds([k \in DOMAIN trader.positions |->
                                trader.positions[k].id])
             /\ \A k \in DOMAIN trader.positions :
                   \A j \in DOMAIN trader.trade_history :
                      trader.positions[k].id # trader.trade_history[j].id
    /\ engine = "stream"
          => /\ DistinctIds([k \in DOMAIN OpenPositions |->
                                OpenPositions[k].position_id])
             /\ \A k \in DOMAIN OpenPositions :
                   \A j \in DOMAIN ClosedRecords :
                      OpenPositions[k].position_id # ClosedRecords[j].position_id

\* ========================================================================
\* A stop signal while an order of the stream engine is in flight
\* ========================================================================
\* the entry of the order history for an order whose create_order call was
\* awaited when the task was cancelled: the venue executed it (outcome
\* "fill") or never received it ("unsent"); no response was returned and the
\* call was left by CancelledError
CancelledEntry(side, id, price, venue_filled) ==
    [ side |-> side, id |-> id, price |-> price,
      outcome |-> IF venue_filled THEN "fill" ELSE "unsent",
      attempts |-> 1, filled |-> FALSE, waits |-> << >>, raised |-> TRUE ]

\* check_tp_sl: the first open position the price closes, 0 if none
FirstToClose(om, price) ==
    LET hit == {k \in DOMAIN om.positions :
                  /\ om.positions[k].status = "OPEN"
                  /\ OmShouldClose(om.positions[k], price)}
    IN IF hit = {} THEN 0 ELSE CHOOSE k \in hit : \A j \in hit : k <= j

\* OrderManager._close_position cancelled inside place_market_order:
\* CancelledError is not an Exception, so the except branch of lines
\* 213-217 does not run and nothing after the await does; the position
\* keeps status OPEN
SellCancelled(st, idx, price, venue_filled) ==
    LET position == st.om.positions[idx]
    IN [st EXCEPT !.orders = Append(@, CancelledEntry("SELL", position.position_id,
                                                      price, venue_filled)),
                  !.usdt = IF venue_filled
                           THEN VenueAfterSell(@, price,
                                               AdjustQuantity(position.quantity))
                           ELSE @]

\* whether OrderManager.open_position reaches place_market_order
BuyIsPlaced(st, current_price, now) ==
    LET rm == RmUpdateDailyTracking(st.rm, now)
        slippage_price == MulDiv(current_price, BP + SLIPPAGE, BP)
        quantity == RmCalculatePositionSize(rm.current_equity, slippage_price,
                                            MulDiv(slippage_price, BP - SL_PCT, BP))
    IN /\ RmChecks(rm)
       /\ AdjustQuantity(quantity) > 0

\* OrderManager.open_position cancelled inside place_market_order: no
\* position is made, the counter is not advanced and trade_opened is not
\* called (lines 100-129 are skipped, and so is the except of line 140)
BuyCancelled(st, current_price, now, venue_filled) ==
    LET rm == RmUpdateDailyTracking(st.rm, now)
        slippage_price == MulDiv(current_price, BP + SLIPPAGE, BP)
        quantity == RmCalculatePositionSize(rm.current_equity, slippage_price,
                                            MulDiv(slippage_price, BP - SL_PCT, BP))
    IN [st EXCEPT !.rm = rm,
                  !.orders = Append(@, CancelledEntry("BUY",
                                       st.om.position_counter + 1,
                                       current_price, venue_filled)),
                  !.usdt = IF venue_filled
                           THEN VenueAfterBuy(@, current_price,
                                              AdjustQuantity(quantity))
                           ELSE @]

\* the stream engine on a funded account
CancelInit ==
    /\ BacktesterInit({DefaultParams})
    /\ engine = "stream"
    /\ LiveStart(FirstSession)
    /\ RiskOff

\* handle_shutdown (main.py:248-251) cancels the task while _on_kline
\* awaits create_order: for the SELL of the first position check_tp_sl
\* closes, or, when it closes none, for the BUY of the signal.  The
\* CancelledError leaves the handler, ends the loop of subscribe_kline
\* (execution.py:227-229) and start() runs _shutdown in its finally.
StopDuringOrder ==
    /\ engine = "stream"
    /\ live_engine.running = "running"
    /\ events < MaxEvents
    /\ \E price \in LivePrices, is_closed \in BOOLEAN, venue_filled \in BOOLEAN,
          ticker_ok \in BOOLEAN :
       \E stop_price \in (IF ticker_ok THEN LivePrices ELSE {price}),
          sell_outcome \in VenueOutcomes :
         LET path == OnKlinePath(is_closed, live_engine.candle_buffer)
             st == [rm |-> risk_manager, om |-> order_manager, usdt |-> usdt,
                    realised |-> 0, orders |-> << >>]
             idx == FirstToClose(order_manager, price)
             cancelled == IF idx # 0
                          THEN SellCancelled(st, idx, price, venue_filled)
                          ELSE BuyCancelled(st, price, today, venue_filled)
             stopped == IF ticker_ok
                        THEN OmCloseLoop(1, cancelled, stop_price, sell_outcome, TRUE)
                        ELSE cancelled
         IN /\ \/ idx # 0
               \/ /\ path.evaluated
                  /\ BuyIsPlaced(st, price, today)
            /\ (idx = 0 /\ venue_filled)
                  => cancelled.usdt >= 0
            /\ risk_manager' = stopped.rm
            /\ order_manager' = stopped.om
            /\ usdt' = stopped.usdt
            /\ closed_today' = closed_today + stopped.realised
            /\ orders' = stopped.orders
            /\ live_engine' = [live_engine EXCEPT
                    !.running = "stopped",
                    !.candle_buffer = IF idx # 0 THEN @ ELSE path.candle_buffer,
                    !.stop_steps = StopSteps(TRUE, ticker_ok),
                    !.last_kline = [is_closed |-> is_closed, evaluated |-> idx = 0]]
    /\ events' = events + 1
    /\ seen_today' = TRUE
    /\ last_event' = "stop_during_order"
    /\ UNCHANGED << engine, today, trader, state_file >>
    /\ UNCHANGED << btvars, riskvars, sweepvars, lotvars, candlevars >>

CancelNext ==
    \/ Midnight
    \/ EngStart
    \/ OnKline
    \/ Shutdown
    \/ StopDuringOrder

CancelSpec == CancelInit /\ [][CancelNext]_vars

\* ---- C39 ---------------------------------------------------------------
\* the order that was in flight when the stop signal came
InFlight == orders[1]

\* the SELL orders of the close-all of the shutdown that followed
SoldAtShutdown ==
    {orders[k].id : k \in {j \in 2 .. Len(orders) : orders[j].side = "SELL"}}

\* C39: after a stop signal that cancelled the stream engine while an
\* order was in flight, a BUY the venue filled is recorded as a position
\* of the order manager, and a position whose SELL the venue filled gets
\* no SELL order from the close-all of the shutdown.
C39_CancelKeepsRecords ==
    last_event = "stop_during_order"
       => /\ (InFlight.side = "BUY" /\ InFlight.outcome = "fill")
                => \E k \in DOMAIN order_manager.positions :
                      order_manager.positions[k].position_id = InFlight.id
          /\ (InFlight.side = "SELL" /\ InFlight.outcome = "fill")
                => InFlight.id \notin SoldAtShutdown

\* ========================================================================
\* Signals and admissions: one of the three programs, the ticks of
\* LiveTrader with the candle each of them read
\* ========================================================================
SignalInit ==
    /\ BacktesterInit({WideParams})
    /\ \/ LiveOff
       \/ /\ engine \in {"polling", "stream"}
          /\ LiveStart(FirstSession)
    /\ RiskOff

\* the BUY orders of the last event that were filled
FilledBuys(os) == {k \in DOMAIN os : os[k].side = "BUY" /\ os[k].filled}

\* LiveTrader.tick, with the candle _check_signal read: get_klines returns
\* the last 100 candles, the last of them being the one still forming, so
\* a tick reads the candle the tick before read (same) or a later one
LtTickOnCandle ==
    /\ LtTickStep
    /\ \E same \in BOOLEAN :
         /\ tick_candle.candle = 0 => ~same
         /\ tick_candle' =
               [candle |-> IF same THEN tick_candle.candle
                           ELSE tick_candle.candle + 1,
                opened |-> (IF same THEN tick_candle.opened ELSE 0)
                              + Cardinality(FilledBuys(orders'))]

SignalNext ==
    \/ BacktestStep
    \/ Midnight
    \/ LtConnect
    \/ LtTickOnCandle
    \/ EngStart
    \/ OnKline
    \/ Shutdown

SignalSpec == SignalInit /\ [][SignalNext]_vars

\* ---- C40 ---------------------------------------------------------------
\* C40: a candle with a buy signal leads to at most one admitted
\* position: in the Backtester no two positions, open or closed, were
\* admitted on the same row; in the stream engine a kline places at most
\* one BUY order; in LiveTrader the ticks that read the same candle as the
\* last one open at most one position between them.
C40_OnePositionPerSignal ==
    /\ engine = "none"
          => Len(positions) + Len(trades) = Cardinality(AdmittedAt)
    /\ engine = "stream"
          => Cardinality({k \in DOMAIN orders : orders[k].side = "BUY"}) <= 1
    /\ engine = "polling"
          => tick_candle.opened <= 1

====
